---- MODULE Spec2Model ----
(***************************************************************************)
(* Model of the promise-dapp record store (scripts/backend/user-storage.js)*)
(* and of the two HTTP front ends that call it.                            *)
(*                                                                         *)
(* The five JSON files of UserStorageService are the variables users,      *)
(* promises, stats, deleteRequests and sessions.  A JS object (users,      *)
(* sessions) is a sequence of records in key-insertion order, which is the *)
(* order Object.values scans; a JS array is a sequence.  An absent         *)
(* optional string is the string "undefined"; an absent optional number is *)
(* the empty set and a present one a singleton.                            *)
(***************************************************************************)
EXTENDS Integers, Sequences, FiniteSets, TLC

VARIABLES
    users,           \* users.json: sequence of user records (insertion order)
    promises,        \* promises.json: array of promise records
    stats,           \* global-stats.json
    deleteRequests,  \* delete-requests.json: array of request records
    sessions,        \* sessions.json: sequence of session records
    now,             \* the value Date.now() returns
    promiseSeq,      \* number of promise ids generated so far
    requestSeq,      \* number of delete-request ids generated so far
    created,         \* history: promises ever created, per user key
    removed,         \* history: promise records removed by deletePromise, per user key
    last,            \* history: the last call and what it returned
    procs,           \* in-flight handlers of the interleaved specification
    present,         \* the files that exist in the data directory
    init,            \* where initializeStorage stands
    service,         \* the fields of the browser's RealtimeService
    pending,         \* its timers not yet fired and connects not yet settled
    calls            \* history: the calls of connect and disconnect

vars == <<users, promises, stats, deleteRequests, sessions, now,
          promiseSeq, requestSeq, created, removed, last, procs,
          present, init, service, pending, calls>>

\* what the requests of the servers leave alone
bootAndClient == <<present, init, service, pending, calls>>

-----------------------------------------------------------------------------
(* Bounds of the model *)

MaxCalls == 4         \* the clock of the last request handled under Spec
ConcRequests == 2     \* delete requests ever created, under SpecConc
RepHistory == 14      \* status updates of the earlier run, under SpecRep

-----------------------------------------------------------------------------
(* Values *)

undefined == "undefined"
null == "null"

\* addresses a caller may send; two of them differ only in letter case
Addresses == {"0xabc", "0xABC", "0xdef"}

toLowerCase(a) == IF a = "0xABC" THEN "0xabc" ELSE a

UserKeys == {toLowerCase(a) : a \in Addresses}

AdminAddresses == {"0xadmin"}

\* the id createPromise generates for its n-th call (Date.now() and a random suffix)
GeneratedPromiseId(n) == <<"promise", n>>

\* an id chosen by the client and sent in the request body
ClientPromiseIds == {<<"client", 1>>}

GeneratedRequestId(n) == <<"delreq", n>>

SessionIds == {"session-1", "session-2"}

-----------------------------------------------------------------------------
(* Sequence helpers (Array.prototype.findIndex / filter / find) *)

Min(S) == CHOOSE x \in S : \A y \in S : x <= y

\* the first of the positions hits of an array, 0 for none: where find and
\* findIndex stop
First(hits) == IF hits = {} THEN 0 ELSE Min(hits)

Max(a, b) == IF a >= b THEN a ELSE b

\* { ...rec, ...updates }: the fields of updates replace those of rec
Merge(rec, updates) ==
    [f \in DOMAIN rec \cup DOMAIN updates |->
        IF f \in DOMAIN updates THEN updates[f] ELSE rec[f]]

-----------------------------------------------------------------------------
(* Users: createUser, getUser, updateUser *)

\* the lookup with the address as it comes, toLowerCase() forgotten
UserIndexByAddress(us, address) ==
    First({i \in 1..Len(us) : us[i].address = address})

\* position of users[address.toLowerCase()], 0 when it is not set
UserIndex(us, address) ==
    First({i \in 1..Len(us) : us[i].key = toLowerCase(address)})

\* users[address.toLowerCase()] is set
HasUser(us, address) == UserIndex(us, address) # 0

\* getUser, when the user exists
getUser(us, address) == us[UserIndex(us, address)]

\* lines 90-101 with the first promise counted at creation
newUserCounted(address, t) ==
    [key |-> toLowerCase(address), address |-> address, reputation |-> 0,
     completedPromises |-> 0, failedPromises |-> 0, totalPromises |-> 1,
     streak |-> 0, level |-> 1, joinedAt |-> t, lastActive |-> t]

\* the record createUser stores
newUser(address, t) ==
    [key |-> toLowerCase(address), address |-> address, reputation |-> 0,
     completedPromises |-> 0, failedPromises |-> 0, totalPromises |-> 0,
     streak |-> 0, level |-> 1, joinedAt |-> t, lastActive |-> t]

\* users.json after createUser(address)
createUser(us, address, t) ==
    IF HasUser(us, address)
    THEN [us EXCEPT ![UserIndex(us, address)] = newUser(address, t)]
    ELSE Append(us, newUser(address, t))

\* updateUser with the key forgotten: the updates land on every record
updateUserEveryRecord(us, address, updates, t) ==
    [i \in DOMAIN us |-> Merge(Merge(us[i], updates), [lastActive |-> t])]

\* users.json after updateUser(address, updates), for an existing user
updateUser(us, address, updates, t) ==
    [us EXCEPT ![UserIndex(us, address)] =
        Merge(Merge(@, updates), [lastActive |-> t])]

-----------------------------------------------------------------------------
(* Reputation: updateUserReputation *)

reputationChange(status) ==
    IF status = "completed" THEN 10
    ELSE IF status = "failed" THEN 0 - 5
    ELSE 0

outcomeUpdates(user, status) ==
    IF status = "completed"
    THEN [completedPromises |-> user.completedPromises + 1,
          streak |-> user.streak + 1]
    ELSE IF status = "failed"
    THEN [failedPromises |-> user.failedPromises + 1, streak |-> 0]
    ELSE <<>>

\* line 314 without Math.max
newReputationUnfloored(user, status) == user.reputation + reputationChange(status)

newReputation(user, status) == Max(0, user.reputation + reputationChange(status))

\* line 315 with Math.ceil for Math.floor
levelOfRoundedUp(reputation) == ((reputation + 49) \div 50) + 1

levelOf(reputation) == (reputation \div 50) + 1

\* the updates object of lines 301-315, computed from the user read at line 298
reputationUpdates(user, status) ==
    Merge(outcomeUpdates(user, status),
          [reputation |-> newReputation(user, status),
           level |-> levelOf(newReputation(user, status))])

\* users.json after updateUserReputation(address, status)
updateUserReputation(us, address, status, t) ==
    IF ~HasUser(us, address) THEN us
    ELSE updateUser(us, address, reputationUpdates(getUser(us, address), status), t)

-----------------------------------------------------------------------------
(* Global statistics: updateGlobalStats *)

\* Number.parseFloat((num / den).toFixed(9)) for den > 0, as the integer part
\* and the nine decimals: long division, rounded half up on the tenth decimal
toFixed9(num, den) ==
    LET rem[k \in 0..10] == IF k = 0 THEN num % den ELSE (rem[k - 1] * 10) % den
        digit(k) == (rem[k - 1] * 10) \div den
        frac[k \in 0..9] == IF k = 0 THEN 0 ELSE frac[k - 1] * 10 + digit(k)
        up == IF digit(10) >= 5 THEN 1 ELSE 0
        carry == frac[9] + up = 1000000000
    IN  [int |-> (num \div den) + (IF carry THEN 1 ELSE 0),
         dec |-> IF carry THEN 0 ELSE frac[9] + up]

Zero9 == [int |-> 0, dec |-> 0]

RECURSIVE SumReputation(_)
SumReputation(us) ==
    IF us = <<>> THEN 0 ELSE Head(us).reputation + SumReputation(Tail(us))

\* the reduce of lines 342-345: index of the user kept in top, 0 for null
RECURSIVE TopIndex(_, _, _)
TopIndex(us, i, top) ==
    IF i > Len(us) THEN top
    ELSE TopIndex(us, i + 1,
                  IF us[i].reputation > (IF top = 0 THEN 0 ELSE us[top].reputation)
                  THEN i ELSE top)

topPerformer(us) ==
    LET top == TopIndex(us, 1, 0)
    IN  IF top = 0 THEN null ELSE us[top].address

\* line 336 counting every promise that is no longer active
completionRateOfSettled(ps) ==
    LET totalPromises == Len(ps)
        completedPromises == Len(SelectSeq(ps, LAMBDA p : p.status # "active"))
    IN  IF totalPromises > 0
        THEN toFixed9(completedPromises * 100, totalPromises)
        ELSE Zero9

\* lines 336-337 and 350
completionRate(ps) ==
    LET totalPromises == Len(ps)
        completedPromises == Len(SelectSeq(ps, LAMBDA p : p.status = "completed"))
    IN  IF totalPromises > 0
        THEN toFixed9(completedPromises * 100, totalPromises)
        ELSE Zero9

\* line 340 dividing by the number of users
averageReputationPerUser(us, ss) ==
    IF Len(us) > 0 THEN toFixed9(SumReputation(us), Len(us)) ELSE Zero9

\* lines 339-340 and 351
averageReputation(us, ss) ==
    LET totalUsers == Len(ss)
    IN  IF totalUsers > 0 THEN toFixed9(SumReputation(us), totalUsers) ELSE Zero9

\* global-stats.json after updateGlobalStats()
updateGlobalStats(us, ps, ss, t) ==
    [totalUsers |-> Len(ss),
     totalPromises |-> Len(ps),
     completionRate |-> completionRate(ps),
     averageReputation |-> averageReputation(us, ss),
     topPerformer |-> topPerformer(us),
     lastUpdated |-> t]

-----------------------------------------------------------------------------
(* Promises: createPromise, updatePromise, deletePromise *)

PromiseStatuses == {"active", "completed", "failed"}

\* request bodies of POST /promises: the client's Promise object, which always
\* carries a status and may carry an id of the client's choosing or an empty
\* message
PromiseDataSet ==
    { [address |-> "0xabc", message |-> "run 5k", status |-> "active"],
      [address |-> "0xABC", message |-> "run 5k", status |-> "active",
       id |-> <<"client", 1>>],
      [address |-> "0xdef", message |-> "run 5k", status |-> "completed",
       id |-> <<"client", 1>>],
      [address |-> "0xdef", message |-> "", status |-> "active"] }

\* request bodies of PUT /promises/<id>: a status, with a proof when completed
StatusUpdates ==
    { [status |-> "completed", proof |-> "photo"], [status |-> "failed"] }

\* the updates POST /admin/update-promise-progress makes: the progress of the
\* request body, which the route passes on as it comes
ProgressUpdates == { [adminAdjustedProgress |-> {50}], [adminAdjustedProgress |-> {150}] }

Requesters == {"0xabc", "0xdef"}

\* the record createPromise pushes: the generated fields, then ...promiseData
newPromise(promiseData, n, t) ==
    Merge([id |-> GeneratedPromiseId(n), createdAt |-> t, updatedAt |-> t,
           adminAdjustedProgress |-> {}, proof |-> undefined],
          promiseData)

PromiseIndex(ps, promiseId) == First({i \in 1..Len(ps) : ps[i].id = promiseId})

\* lines 212-216 applied to every record of the array
updatedPromisesEveryRecord(ps, promiseId, updates, t) ==
    [i \in DOMAIN ps |-> Merge(Merge(ps[i], updates), [updatedAt |-> t])]

\* promises.json after the write of updatePromise, for a promise that is found
updatedPromises(ps, promiseId, updates, t) ==
    [ps EXCEPT ![PromiseIndex(ps, promiseId)] =
        Merge(Merge(@, updates), [updatedAt |-> t])]

\* line 220 without the comparison with the old status
statusChangedUnchecked(oldPromise, updates) == "status" \in DOMAIN updates

\* line 220 applying the engine only to a promise that is still active
statusChangedFromActive(oldPromise, updates) ==
    /\ "status" \in DOMAIN updates
    /\ updates.status # oldPromise.status
    /\ oldPromise.status = "active"

\* whether updatePromise goes on to updateUserReputation
statusChanged(oldPromise, updates) ==
    "status" \in DOMAIN updates /\ updates.status # oldPromise.status

\* promises.json after the write of deletePromise
remainingPromises(ps, promiseId) == SelectSeq(ps, LAMBDA p : p.id # promiseId)

\* users.json after deletePromise has removed promiseToDelete
usersAfterDelete(us, promiseToDelete, t) ==
    IF HasUser(us, promiseToDelete.address)
    THEN updateUser(us, promiseToDelete.address,
                    [totalPromises |->
                        Max(0, getUser(us, promiseToDelete.address).totalPromises - 1)],
                    t)
    ELSE us

-----------------------------------------------------------------------------
(* Delete requests: addDeleteRequest, updateDeleteRequestStatus *)

\* line 380 comparing the request's own id with promiseId
existingRequestById(requests, promiseId) ==
    First({i \in 1..Len(requests) : requests[i].id = promiseId /\ requests[i].status = "pending"})

\* index of the pending request addDeleteRequest finds for promiseId, 0 for none
existingRequest(requests, promiseId) ==
    First({i \in 1..Len(requests) : requests[i].promiseId = promiseId /\ requests[i].status = "pending"})

newRequest(promiseId, requesterAddress, n, t) ==
    [id |-> GeneratedRequestId(n), promiseId |-> promiseId,
     requesterAddress |-> requesterAddress, status |-> "pending",
     requestedAt |-> t, processedBy |-> undefined, processedAt |-> {}]

RequestIndex(requests, requestId) == First({i \in 1..Len(requests) : requests[i].id = requestId})

\* the array updateDeleteRequestStatus saves, for a request that is found
processedRequests(requests, requestId, status, adminAddress, t) ==
    [requests EXCEPT ![RequestIndex(requests, requestId)] =
        Merge(@, [status |-> status, processedBy |-> adminAddress,
                  processedAt |-> {t}])]

\* line 431 without the test of the status
cascadesAlways(status) == status \in {"approved", "rejected"}

\* whether updateDeleteRequestStatus goes on to deletePromise
cascades(status) == status = "approved"

-----------------------------------------------------------------------------
(* Sessions: recordSession *)

SessionIndex(ss, sessionId) == First({i \in 1..Len(ss) : ss[i].id = sessionId})

\* lines 52-59 writing a fresh record for a session that is known
recordedSessionsRestarted(ss, sessionId, t) ==
    IF SessionIndex(ss, sessionId) = 0
    THEN Append(ss, [id |-> sessionId, ip |-> "simulated_ip",
                     firstVisit |-> t, lastActive |-> t])
    ELSE [ss EXCEPT ![SessionIndex(ss, sessionId)] =
             [id |-> sessionId, ip |-> "simulated_ip",
              firstVisit |-> t, lastActive |-> t]]

\* lines 50-59: the sessions after recordSession(sessionId)
recordedSessions(ss, sessionId, t) ==
    IF SessionIndex(ss, sessionId) = 0
    THEN Append(ss, [id |-> sessionId, ip |-> "simulated_ip",
                     firstVisit |-> t, lastActive |-> t])
    ELSE [ss EXCEPT ![SessionIndex(ss, sessionId)].lastActive = t]

-----------------------------------------------------------------------------
(* The methods of UserStorageService, each run from its first line to its  *)
(* return or throw, as functions of the five files (db) and of Date.now()  *)

\* recordSession without the updateGlobalStats of line 55
recordSessionUnrefreshed(db, sessionId, t) ==
    [db EXCEPT !.sessions = recordedSessions(db.sessions, sessionId, t)]

\* recordSession(sessionId)
recordSession(db, sessionId, t) ==
    LET ss == recordedSessions(db.sessions, sessionId, t)
    IN  IF SessionIndex(db.sessions, sessionId) = 0
        THEN [db EXCEPT !.sessions = ss,
                        !.stats = updateGlobalStats(db.users, db.promises, ss, t)]
        ELSE [db EXCEPT !.sessions = ss]

\* createPromise(promiseData), n being the number of the generated id
createPromise(db, promiseData, n, t) ==
    LET address == promiseData.address
        users1 == IF HasUser(db.users, address) THEN db.users
                  ELSE createUser(db.users, address, t)
        user == getUser(users1, address)
        ps == Append(db.promises, newPromise(promiseData, n, t))
        us == updateUser(users1, address,
                         [totalPromises |-> user.totalPromises + 1], t)
    IN  [db EXCEPT !.promises = ps, !.users = us,
                   !.stats = updateGlobalStats(us, ps, db.sessions, t)]

\* updatePromise(promiseId, updates) throws when the promise is not found
updatePromiseThrows(db, promiseId) == PromiseIndex(db.promises, promiseId) = 0

\* updatePromise with the statistics refreshed before the lookup of line 205
updatePromiseRefreshingFirst(db, promiseId, updates, t) ==
    IF updatePromiseThrows(db, promiseId)
    THEN [db EXCEPT !.stats = updateGlobalStats(db.users, db.promises, db.sessions, t)]
    ELSE LET oldPromise == db.promises[PromiseIndex(db.promises, promiseId)]
             ps == updatedPromises(db.promises, promiseId, updates, t)
             us == IF statusChanged(oldPromise, updates)
                   THEN updateUserReputation(db.users, oldPromise.address,
                                             updates.status, t)
                   ELSE db.users
         IN  [db EXCEPT !.promises = ps, !.users = us,
                        !.stats = updateGlobalStats(us, ps, db.sessions, t)]

\* updatePromise(promiseId, updates)
updatePromise(db, promiseId, updates, t) ==
    IF updatePromiseThrows(db, promiseId) THEN db
    ELSE LET oldPromise == db.promises[PromiseIndex(db.promises, promiseId)]
             ps == updatedPromises(db.promises, promiseId, updates, t)
             us == IF statusChanged(oldPromise, updates)
                   THEN updateUserReputation(db.users, oldPromise.address,
                                             updates.status, t)
                   ELSE db.users
         IN  [db EXCEPT !.promises = ps, !.users = us,
                        !.stats = updateGlobalStats(us, ps, db.sessions, t)]

\* deletePromise(promiseId) throws when the promise is not found
deletePromiseThrows(db, promiseId) == PromiseIndex(db.promises, promiseId) = 0

\* deletePromise(promiseId)
deletePromise(db, promiseId, t) ==
    IF deletePromiseThrows(db, promiseId) THEN db
    ELSE LET promiseToDelete == db.promises[PromiseIndex(db.promises, promiseId)]
             ps == remainingPromises(db.promises, promiseId)
             us == usersAfterDelete(db.users, promiseToDelete, t)
         IN  [db EXCEPT !.promises = ps, !.users = us,
                        !.stats = updateGlobalStats(us, ps, db.sessions, t)]

\* what addDeleteRequest(promiseId, requesterAddress) returns
addDeleteRequestResult(db, promiseId, requesterAddress, n, t) ==
    IF existingRequest(db.deleteRequests, promiseId) # 0
    THEN db.deleteRequests[existingRequest(db.deleteRequests, promiseId)]
    ELSE newRequest(promiseId, requesterAddress, n, t)

\* addDeleteRequest without the early return of lines 382-385
addDeleteRequestUnchecked(db, promiseId, requesterAddress, n, t) ==
    [db EXCEPT !.deleteRequests =
        Append(@, newRequest(promiseId, requesterAddress, n, t))]

\* addDeleteRequest(promiseId, requesterAddress), n being the number of the new id
addDeleteRequest(db, promiseId, requesterAddress, n, t) ==
    IF existingRequest(db.deleteRequests, promiseId) # 0 THEN db
    ELSE [db EXCEPT !.deleteRequests =
             Append(@, newRequest(promiseId, requesterAddress, n, t))]

\* updateDeleteRequestStatus throws when the request is not found, or when the
\* deletePromise it goes on to throws
updateDeleteRequestStatusThrows(db, requestId, status) ==
    \/ RequestIndex(db.deleteRequests, requestId) = 0
    \/ /\ cascades(status)
       /\ deletePromiseThrows(db,
             db.deleteRequests[RequestIndex(db.deleteRequests, requestId)].promiseId)

\* updateDeleteRequestStatus(requestId, status, adminAddress)
updateDeleteRequestStatus(db, requestId, status, adminAddress, t) ==
    IF RequestIndex(db.deleteRequests, requestId) = 0 THEN db
    ELSE LET saved == [db EXCEPT !.deleteRequests =
                          processedRequests(@, requestId, status, adminAddress, t)]
             promiseId == db.deleteRequests[RequestIndex(db.deleteRequests,
                                                         requestId)].promiseId
         IN  IF cascades(status) THEN deletePromise(saved, promiseId, t) ELSE saved

-----------------------------------------------------------------------------
(* The HTTP routes of the two servers, one action per request *)

\* the promise ids a request may name: those generated so far, stored or
\* deleted since, and the client's
PromiseIds == {GeneratedPromiseId(n) : n \in 1..promiseSeq} \cup ClientPromiseIds

\* the request ids the admin may name: those generated so far and one that
\* never was
RequestIds == {GeneratedRequestId(n) : n \in 0..requestSeq}

Procs == {1, 2}

idle == [pc |-> "idle"]

\* the five files as one record
Db ==
    [users |-> users, promises |-> promises, stats |-> stats,
     deleteRequests |-> deleteRequests, sessions |-> sessions]

\* the files after the request
Store(db) ==
    /\ users' = db.users
    /\ promises' = db.promises
    /\ stats' = db.stats
    /\ deleteRequests' = db.deleteRequests
    /\ sessions' = db.sessions

\* the files as the program finds them when it starts
Load(db) ==
    /\ users = db.users
    /\ promises = db.promises
    /\ stats = db.stats
    /\ deleteRequests = db.deleteRequests
    /\ sessions = db.sessions

emptyDb ==
    [users |-> <<>>, promises |-> <<>>, sessions |-> <<>>, deleteRequests |-> <<>>,
     stats |-> updateGlobalStats(<<>>, <<>>, <<>>, 0)]

\* the records of ps whose owner has the user key k
OwnedBy(ps, k) == SelectSeq(ps, LAMBDA p : toLowerCase(p.address) = k)

\* the five files of the data directory
Files == {"users", "promises", "stats", "deleteRequests", "sessions"}

\* initializeStorage has returned: every file exists
StorageReady == present = Files /\ init = "done"

\* new RealtimeService(): lines 45-49; nothing scheduled, nothing called
ServiceNew ==
    /\ service = [ws |-> null, reconnectAttempts |-> 0, sessionId |-> null]
    /\ pending = [timers |-> 0, connects |-> 0]
    /\ calls = [connect |-> 0, byCaller |-> 0, disconnected |-> FALSE]

\* The files an earlier run of the server may have left: three promises and
\* a prefix of a history of status updates

RepBodies ==
    << [address |-> "0xabc", message |-> "run 5k", status |-> "active"],
       [address |-> "0xABC", message |-> "run 5k", status |-> "active"],
       [address |-> "0xdef", message |-> "run 5k", status |-> "active"] >>

RECURSIVE Created(_)
\* the files after createPromise has stored the first n bodies of RepBodies
Created(n) ==
    IF n = 0 THEN emptyDb ELSE createPromise(Created(n - 1), RepBodies[n], n, 0)

\* the k-th status update of the earlier run: both promises of 0xabc are
\* completed, then each in turn is failed and completed again
RepUpdate(k) ==
    IF k <= 2 THEN [promise |-> k, updates |-> [status |-> "completed", proof |-> "photo"]]
    ELSE [promise |-> IF (k - 3) % 4 < 2 THEN 1 ELSE 2,
          updates |-> IF (k - 3) % 2 = 0 THEN [status |-> "failed"]
                      ELSE [status |-> "completed", proof |-> "photo"]]

RECURSIVE Replayed(_)
\* the files after the first n status updates of the earlier run
Replayed(n) ==
    IF n = 0 THEN Created(Len(RepBodies))
    ELSE updatePromise(Replayed(n - 1), GeneratedPromiseId(RepUpdate(n).promise),
                       RepUpdate(n).updates, 0)

\* the session of the visitor of the earlier run
EarlierSessionId == "session-0"

\* initializeStorage, on an empty data directory or, a millisecond after the
\* earlier run, on the files it left after all but the last of its updates
\* and a visit: initializeFile keeps a file that exists
Init ==
    /\ \/ /\ Load(emptyDb)
          /\ now = 0
          /\ promiseSeq = 0
          /\ created = [k \in UserKeys |-> 0]
          /\ last = [op |-> "initializeStorage", ok |-> TRUE, case |-> "empty"]
       \/ /\ Load(recordSession(Replayed(RepHistory - 1), EarlierSessionId, 0))
          /\ now = 1
          /\ promiseSeq = Len(RepBodies)
          /\ created = [k \in UserKeys |-> IF k = "0xabc" THEN 2 ELSE 1]
          /\ last = [op |-> "initializeStorage", ok |-> TRUE, case |-> "loaded"]
    /\ requestSeq = 0
    /\ removed = [k \in UserKeys |-> 0]
    /\ procs = [p \in Procs |-> idle]
    /\ StorageReady /\ ServiceNew

\* Each request is handled at a time t that Date.now() returns throughout it

\* POST /record-session
PostRecordSession(sessionId, t) ==
    /\ Store(recordSession(Db, sessionId, t))
    /\ now' = t
    /\ last' = [op |-> "recordSession", ok |-> TRUE,
                case |-> IF SessionIndex(sessions, sessionId) = 0 THEN "new" ELSE "known"]
    /\ UNCHANGED <<promiseSeq, requestSeq, created, removed, procs>>
    /\ UNCHANGED bootAndClient

\* POST /promises
PostPromises(promiseData, t) ==
    /\ Store(createPromise(Db, promiseData, promiseSeq + 1, t))
    /\ promiseSeq' = promiseSeq + 1
    /\ created' = [created EXCEPT ![toLowerCase(promiseData.address)] = @ + 1]
    /\ now' = t
    /\ last' = [op |-> "createPromise", ok |-> TRUE, case |-> "created"]
    /\ UNCHANGED <<requestSeq, removed, procs>>
    /\ UNCHANGED bootAndClient

\* PUT /promises/<id>, and POST /admin/update-promise-progress
PutPromise(promiseId, updates, t) ==
    /\ Store(updatePromise(Db, promiseId, updates, t))
    /\ now' = t
    /\ last' = [op |-> "updatePromise", ok |-> ~updatePromiseThrows(Db, promiseId),
                case |-> IF updatePromiseThrows(Db, promiseId) THEN "notFound"
                         ELSE IF "status" \notin DOMAIN updates THEN "progress"
                         ELSE IF statusChanged(promises[PromiseIndex(promises, promiseId)],
                                               updates)
                              THEN "newStatus" ELSE "sameStatus"]
    /\ UNCHANGED <<promiseSeq, requestSeq, created, removed, procs>>
    /\ UNCHANGED bootAndClient

\* POST /delete-requests
PostDeleteRequests(promiseId, requesterAddress, t) ==
    /\ Store(addDeleteRequest(Db, promiseId, requesterAddress, requestSeq + 1, t))
    /\ requestSeq' = IF existingRequest(deleteRequests, promiseId) # 0
                     THEN requestSeq ELSE requestSeq + 1
    /\ now' = t
    /\ last' = [op |-> "addDeleteRequest", ok |-> TRUE,
                case |-> IF existingRequest(deleteRequests, promiseId) # 0
                         THEN "existing" ELSE "new"]
    /\ UNCHANGED <<promiseSeq, created, removed, procs>>
    /\ UNCHANGED bootAndClient

\* POST /admin/approve-delete (status approved), /admin/reject-delete (rejected)
PostResolveDelete(requestId, status, adminAddress, t) ==
    /\ Store(updateDeleteRequestStatus(Db, requestId, status, adminAddress, t))
    /\ removed' = [k \in UserKeys |->
                      removed[k] + Len(OwnedBy(promises, k)) - Len(OwnedBy(promises', k))]
    /\ now' = t
    /\ last' = [op |-> "updateDeleteRequestStatus",
                ok |-> ~updateDeleteRequestStatusThrows(Db, requestId, status),
                case |-> IF RequestIndex(deleteRequests, requestId) = 0
                         THEN "notFound" ELSE status]
    /\ UNCHANGED <<promiseSeq, requestSeq, created, procs>>
    /\ UNCHANGED bootAndClient

\* one request at a time, each handled to its end before the next arrives, the
\* clock advancing by one from each request to the next
Next ==
    \/ \E sessionId \in SessionIds :
          now < MaxCalls /\ PostRecordSession(sessionId, now + 1)
    \/ \E promiseData \in PromiseDataSet :
          now < MaxCalls /\ PostPromises(promiseData, now + 1)
    \/ \E promiseId \in PromiseIds, updates \in StatusUpdates :
          now < MaxCalls /\ PutPromise(promiseId, updates, now + 1)
    \/ \E promiseId \in PromiseIds, updates \in ProgressUpdates :
          now < MaxCalls /\ PutPromise(promiseId, updates, now + 1)
    \/ \E promiseId \in PromiseIds, requesterAddress \in Requesters :
          now < MaxCalls /\ PostDeleteRequests(promiseId, requesterAddress, now + 1)
    \/ \E requestId \in RequestIds, status \in {"approved", "rejected"},
          adminAddress \in AdminAddresses :
          now < MaxCalls /\ PostResolveDelete(requestId, status, adminAddress, now + 1)

Spec == Init /\ [][Next]_vars

-----------------------------------------------------------------------------
(* The server started on the files an earlier run left, after any prefix   *)
(* of its history of status updates.  It then handles one update, in the   *)
(* millisecond of the start or a later one.                                *)

RepPromiseIds == {GeneratedPromiseId(n) : n \in 1..Len(RepBodies)}

\* initializeStorage on a data directory whose files exist
InitRep ==
    /\ \E n \in 0..RepHistory : Load(Replayed(n))
    /\ now = 0
    /\ promiseSeq = Len(RepBodies)
    /\ requestSeq = 0
    /\ created = [k \in UserKeys |-> IF k = "0xabc" THEN 2 ELSE 1]
    /\ removed = [k \in UserKeys |-> 0]
    /\ last = [op |-> "initializeStorage", ok |-> TRUE, case |-> "loaded"]
    /\ procs = [p \in Procs |-> idle]
    /\ StorageReady /\ ServiceNew

NextRep ==
    \/ \E promiseId \in RepPromiseIds, updates \in StatusUpdates, t \in {now, now + 1} :
          last.op = "initializeStorage" /\ PutPromise(promiseId, updates, t)
    \/ \E promiseId \in RepPromiseIds, updates \in ProgressUpdates, t \in {now, now + 1} :
          last.op = "initializeStorage" /\ PutPromise(promiseId, updates, t)

SpecRep == InitRep /\ [][NextRep]_vars

-----------------------------------------------------------------------------
(* Two delete-request handlers in flight at once.  Every await of a        *)
(* handler is a point where the other handler may run: addDeleteRequest    *)
(* and updateDeleteRequestStatus read delete-requests.json, change the     *)
(* array in memory and write it back whole.  deletePromise, which does not *)
(* touch delete-requests.json, is taken in one step.                       *)

ConcPromiseIds == {GeneratedPromiseId(n) : n \in 1..2}

ConcRequestIds == {GeneratedRequestId(n) : n \in 1..ConcRequests}

\* a write of delete-requests.json by another handler is pending
WriteInFlight(p) ==
    \E q \in Procs \ {p} : procs[q].pc \in {"addWrite", "resolveWrite"}

\* what getDeleteRequests(true) may return to handler p: the file, or [] when
\* the read fails on a file another handler is rewriting (fs.writeFile
\* truncates before it writes; the catch of lines 409-412 returns [])
ReadDeleteRequests(p) ==
    {deleteRequests} \cup (IF WriteInFlight(p) THEN {<<>>} ELSE {})

InitConc ==
    /\ Load(Created(2))
    /\ now = 0
    /\ promiseSeq = 2
    /\ requestSeq = 0
    /\ created = [k \in UserKeys |-> IF k = "0xabc" THEN 2 ELSE 0]
    /\ removed = [k \in UserKeys |-> 0]
    /\ last = [op |-> "initializeStorage", ok |-> TRUE, case |-> "loaded"]
    /\ procs = [p \in Procs |-> idle]
    /\ StorageReady /\ ServiceNew

\* addDeleteRequest up to its write: lines 379-394
AddRead(p, promiseId, requesterAddress) ==
    /\ procs[p].pc = "idle"
    /\ \E requests \in ReadDeleteRequests(p) :
          IF existingRequest(requests, promiseId) # 0
          THEN /\ last' = [op |-> "addDeleteRequest", ok |-> TRUE, case |-> "existing"]
               /\ UNCHANGED <<procs, requestSeq>>
          ELSE /\ procs' = [procs EXCEPT ![p] =
                     [pc |-> "addWrite",
                      requests |-> Append(requests,
                          newRequest(promiseId, requesterAddress, requestSeq + 1, now))]]
               /\ requestSeq' = requestSeq + 1
               /\ UNCHANGED last
    /\ UNCHANGED <<users, promises, stats, deleteRequests, sessions, now,
                   promiseSeq, created, removed>>
    /\ UNCHANGED bootAndClient

\* saveDeleteRequests and the return: lines 395-397
AddWrite(p) ==
    /\ procs[p].pc = "addWrite"
    /\ deleteRequests' = procs[p].requests
    /\ procs' = [procs EXCEPT ![p] = idle]
    /\ last' = [op |-> "addDeleteRequest", ok |-> TRUE, case |-> "new"]
    /\ UNCHANGED <<users, promises, stats, sessions, now, promiseSeq, requestSeq,
                   created, removed>>
    /\ UNCHANGED bootAndClient

\* updateDeleteRequestStatus up to its write: lines 417-426
ResolveRead(p, requestId, status, adminAddress) ==
    /\ procs[p].pc = "idle"
    /\ \E requests \in ReadDeleteRequests(p) :
          IF RequestIndex(requests, requestId) = 0
          THEN /\ last' = [op |-> "updateDeleteRequestStatus", ok |-> FALSE,
                           case |-> "notFound"]
               /\ UNCHANGED procs
          ELSE /\ procs' = [procs EXCEPT ![p] =
                     [pc |-> "resolveWrite",
                      requests |-> processedRequests(requests, requestId, status,
                                                     adminAddress, now),
                      promiseId |-> requests[RequestIndex(requests, requestId)].promiseId,
                      status |-> status]]
               /\ UNCHANGED last
    /\ UNCHANGED <<users, promises, stats, deleteRequests, sessions, now,
                   promiseSeq, requestSeq, created, removed>>
    /\ UNCHANGED bootAndClient

\* saveDeleteRequests: line 428
ResolveWrite(p) ==
    /\ procs[p].pc = "resolveWrite"
    /\ deleteRequests' = procs[p].requests
    /\ IF cascades(procs[p].status)
       THEN /\ procs' = [procs EXCEPT ![p].pc = "resolveDelete"]
            /\ UNCHANGED last
       ELSE /\ procs' = [procs EXCEPT ![p] = idle]
            /\ last' = [op |-> "updateDeleteRequestStatus", ok |-> TRUE,
                        case |-> procs[p].status]
    /\ UNCHANGED <<users, promises, stats, sessions, now, promiseSeq, requestSeq,
                   created, removed>>
    /\ UNCHANGED bootAndClient

\* deletePromise and the return or throw: lines 431-434
ResolveDelete(p) ==
    /\ procs[p].pc = "resolveDelete"
    /\ Store(deletePromise(Db, procs[p].promiseId, now))
    /\ removed' = [k \in UserKeys |->
                      removed[k] + Len(OwnedBy(promises, k)) - Len(OwnedBy(promises', k))]
    /\ procs' = [procs EXCEPT ![p] = idle]
    /\ last' = [op |-> "updateDeleteRequestStatus",
                ok |-> ~deletePromiseThrows(Db, procs[p].promiseId),
                case |-> procs[p].status]
    /\ UNCHANGED <<now, promiseSeq, requestSeq, created>>
    /\ UNCHANGED bootAndClient

NextConc ==
    \/ \E p \in Procs, promiseId \in ConcPromiseIds, requesterAddress \in {"0xabc"} :
          /\ requestSeq < ConcRequests
          /\ AddRead(p, promiseId, requesterAddress)
    \/ \E p \in Procs : AddWrite(p)
    \/ \E p \in Procs, requestId \in ConcRequestIds, status \in {"approved", "rejected"},
          adminAddress \in AdminAddresses :
          ResolveRead(p, requestId, status, adminAddress)
    \/ \E p \in Procs : ResolveWrite(p)
    \/ \E p \in Procs : ResolveDelete(p)

SpecConc == InitConc /\ [][NextConc]_vars

-----------------------------------------------------------------------------
(* Two handlers of createPromise, updatePromise and an approved deletion   *)
(* in flight at once.  Each method reads a file, changes the value in      *)
(* memory and writes the file back whole, with awaits between; a step here *)
(* runs a handler from one write to its next, the reads taken where the    *)
(* code takes them.  The clock advances by one when a request arrives.     *)

\* requests handled under SpecInter
InterCalls == 2

\* the files hold two promises of 0xabc and a pending request to delete the
\* first
InitInter ==
    /\ Load(addDeleteRequest(Created(2), GeneratedPromiseId(1), "0xabc", 1, 0))
    /\ now = 0
    /\ promiseSeq = 2
    /\ requestSeq = 1
    /\ created = [k \in UserKeys |-> IF k = "0xabc" THEN 2 ELSE 0]
    /\ removed = [k \in UserKeys |-> 0]
    /\ last = [op |-> "initializeStorage", ok |-> TRUE, case |-> "loaded"]
    /\ procs = [p \in Procs |-> idle]
    /\ StorageReady /\ ServiceNew

\* createPromise up to its push: lines 170-185, for an owner whose user
\* getUser finds
CreateRead(p, promiseData) ==
    /\ procs[p].pc = "idle"
    /\ HasUser(users, promiseData.address)
    /\ now' = now + 1
    /\ promiseSeq' = promiseSeq + 1
    /\ procs' = [procs EXCEPT ![p] =
          [pc |-> "createSave",
           promises |-> Append(promises, newPromise(promiseData, promiseSeq + 1, now')),
           address |-> promiseData.address,
           user |-> getUser(users, promiseData.address)]]
    /\ UNCHANGED <<users, promises, stats, deleteRequests, sessions, requestSeq,
                   created, removed, last>>
    /\ UNCHANGED bootAndClient

\* savePromises: line 186
CreateSave(p) ==
    /\ procs[p].pc = "createSave"
    /\ promises' = procs[p].promises
    /\ created' = [created EXCEPT ![toLowerCase(procs[p].address)] = @ + 1]
    /\ procs' = [procs EXCEPT ![p].pc = "createUpdateUser"]
    /\ UNCHANGED <<users, stats, deleteRequests, sessions, now, promiseSeq,
                   requestSeq, removed, last>>
    /\ UNCHANGED bootAndClient

\* updateUser with the totalPromises of the user read at line 171: lines 188-190
CreateUpdateUser(p) ==
    /\ procs[p].pc = "createUpdateUser"
    /\ users' = updateUser(users, procs[p].address,
                           [totalPromises |-> procs[p].user.totalPromises + 1], now)
    /\ procs' = [procs EXCEPT ![p].pc = "createStats"]
    /\ UNCHANGED <<promises, stats, deleteRequests, sessions, now, promiseSeq,
                   requestSeq, created, removed, last>>
    /\ UNCHANGED bootAndClient

\* updateGlobalStats and the return: lines 192-195
CreateStats(p) ==
    /\ procs[p].pc = "createStats"
    /\ stats' = updateGlobalStats(users, promises, sessions, now)
    /\ procs' = [procs EXCEPT ![p] = idle]
    /\ last' = [op |-> "createPromise", ok |-> TRUE, case |-> "created"]
    /\ UNCHANGED <<users, promises, deleteRequests, sessions, now, promiseSeq,
                   requestSeq, created, removed>>
    /\ UNCHANGED bootAndClient

\* updatePromise up to its write: lines 204-216
UpdateRead(p, promiseId, updates) ==
    /\ procs[p].pc = "idle"
    /\ now' = now + 1
    /\ IF updatePromiseThrows(Db, promiseId)
       THEN /\ last' = [op |-> "updatePromise", ok |-> FALSE, case |-> "notFound"]
            /\ UNCHANGED procs
       ELSE /\ procs' = [procs EXCEPT ![p] =
                  [pc |-> "updateSave",
                   promises |-> updatedPromises(promises, promiseId, updates, now'),
                   address |-> promises[PromiseIndex(promises, promiseId)].address,
                   status |-> updates.status,
                   changed |-> statusChanged(promises[PromiseIndex(promises, promiseId)],
                                             updates)]]
            /\ UNCHANGED last
    /\ UNCHANGED <<users, promises, stats, deleteRequests, sessions, promiseSeq,
                   requestSeq, created, removed>>
    /\ UNCHANGED bootAndClient

\* savePromises and the test of line 220
UpdateSave(p) ==
    /\ procs[p].pc = "updateSave"
    /\ promises' = procs[p].promises
    /\ procs' = [procs EXCEPT ![p].pc = IF procs[p].changed THEN "updateGetUser"
                                        ELSE "updateStats"]
    /\ UNCHANGED <<users, stats, deleteRequests, sessions, now, promiseSeq,
                   requestSeq, created, removed, last>>
    /\ UNCHANGED bootAndClient

\* updateUserReputation up to its updateUser: lines 298-315
UpdateGetUser(p) ==
    /\ procs[p].pc = "updateGetUser"
    /\ procs' = [procs EXCEPT ![p] =
          IF HasUser(users, procs[p].address)
          THEN [pc |-> "updateUser", address |-> procs[p].address,
                changed |-> TRUE,
                updates |-> reputationUpdates(getUser(users, procs[p].address),
                                              procs[p].status)]
          ELSE [pc |-> "updateStats", changed |-> TRUE]]
    /\ UNCHANGED <<users, promises, stats, deleteRequests, sessions, now,
                   promiseSeq, requestSeq, created, removed, last>>
    /\ UNCHANGED bootAndClient

\* updateUser: line 317
UpdateUser(p) ==
    /\ procs[p].pc = "updateUser"
    /\ users' = updateUser(users, procs[p].address, procs[p].updates, now)
    /\ procs' = [procs EXCEPT ![p] = [pc |-> "updateStats", changed |-> TRUE]]
    /\ UNCHANGED <<promises, stats, deleteRequests, sessions, now, promiseSeq,
                   requestSeq, created, removed, last>>
    /\ UNCHANGED bootAndClient

\* updateGlobalStats and the return: lines 224-227
UpdateStats(p) ==
    /\ procs[p].pc = "updateStats"
    /\ stats' = updateGlobalStats(users, promises, sessions, now)
    /\ last' = [op |-> "updatePromise", ok |-> TRUE,
                case |-> IF procs[p].changed THEN "newStatus" ELSE "sameStatus"]
    /\ procs' = [procs EXCEPT ![p] = idle]
    /\ UNCHANGED <<users, promises, deleteRequests, sessions, now, promiseSeq,
                   requestSeq, created, removed>>
    /\ UNCHANGED bootAndClient

\* updateDeleteRequestStatus(requestId, "approved", adminAddress) up to its
\* deletePromise: lines 417-431
ApproveSave(p, requestId, adminAddress) ==
    /\ procs[p].pc = "idle"
    /\ now' = now + 1
    /\ IF RequestIndex(deleteRequests, requestId) = 0
       THEN /\ last' = [op |-> "updateDeleteRequestStatus", ok |-> FALSE,
                        case |-> "notFound"]
            /\ UNCHANGED <<procs, deleteRequests>>
       ELSE /\ deleteRequests' = processedRequests(deleteRequests, requestId,
                                                   "approved", adminAddress, now')
            /\ procs' = [procs EXCEPT ![p] =
                  [pc |-> "deleteRead",
                   promiseId |-> deleteRequests[RequestIndex(deleteRequests,
                                                             requestId)].promiseId]]
            /\ UNCHANGED last
    /\ UNCHANGED <<users, promises, stats, sessions, promiseSeq, requestSeq,
                   created, removed>>
    /\ UNCHANGED bootAndClient

\* deletePromise up to its write: lines 236-243
DeleteRead(p) ==
    /\ procs[p].pc = "deleteRead"
    /\ IF deletePromiseThrows(Db, procs[p].promiseId)
       THEN /\ procs' = [procs EXCEPT ![p] = idle]
            /\ last' = [op |-> "updateDeleteRequestStatus", ok |-> FALSE,
                        case |-> "approved"]
       ELSE /\ procs' = [procs EXCEPT ![p] =
                  [pc |-> "deleteSave",
                   promiseId |-> procs[p].promiseId,
                   promises |-> remainingPromises(promises, procs[p].promiseId),
                   promiseToDelete |->
                       promises[PromiseIndex(promises, procs[p].promiseId)]]]
            /\ UNCHANGED last
    /\ UNCHANGED <<users, promises, stats, deleteRequests, sessions, now,
                   promiseSeq, requestSeq, created, removed>>
    /\ UNCHANGED bootAndClient

\* savePromises: line 244
DeleteSave(p) ==
    /\ procs[p].pc = "deleteSave"
    /\ promises' = procs[p].promises
    /\ removed' = [removed EXCEPT ![toLowerCase(procs[p].promiseToDelete.address)] = @ + 1]
    /\ procs' = [procs EXCEPT ![p].pc = "deleteUpdateUser"]
    /\ UNCHANGED <<users, stats, deleteRequests, sessions, now, promiseSeq,
                   requestSeq, created, last>>
    /\ UNCHANGED bootAndClient

\* getUser and updateUser: lines 246-251
DeleteUpdateUser(p) ==
    /\ procs[p].pc = "deleteUpdateUser"
    /\ users' = usersAfterDelete(users, procs[p].promiseToDelete, now)
    /\ procs' = [procs EXCEPT ![p].pc = "deleteStats"]
    /\ UNCHANGED <<promises, stats, deleteRequests, sessions, now, promiseSeq,
                   requestSeq, created, removed, last>>
    /\ UNCHANGED bootAndClient

\* updateGlobalStats and the returns: lines 253-256 and 434
DeleteStats(p) ==
    /\ procs[p].pc = "deleteStats"
    /\ stats' = updateGlobalStats(users, promises, sessions, now)
    /\ procs' = [procs EXCEPT ![p] = idle]
    /\ last' = [op |-> "updateDeleteRequestStatus", ok |-> TRUE, case |-> "approved"]
    /\ UNCHANGED <<users, promises, deleteRequests, sessions, now, promiseSeq,
                   requestSeq, created, removed>>
    /\ UNCHANGED bootAndClient

NextInter ==
    \/ \E p \in Procs, promiseData \in PromiseDataSet :
          now < InterCalls /\ CreateRead(p, promiseData)
    \/ \E p \in Procs : CreateSave(p)
    \/ \E p \in Procs : CreateUpdateUser(p)
    \/ \E p \in Procs : CreateStats(p)
    \/ \E p \in Procs, promiseId \in PromiseIds, updates \in StatusUpdates :
          now < InterCalls /\ UpdateRead(p, promiseId, updates)
    \/ \E p \in Procs : UpdateSave(p)
    \/ \E p \in Procs : UpdateGetUser(p)
    \/ \E p \in Procs : UpdateUser(p)
    \/ \E p \in Procs : UpdateStats(p)
    \/ \E p \in Procs, requestId \in RequestIds, adminAddress \in AdminAddresses :
          now < InterCalls /\ ApproveSave(p, requestId, adminAddress)
    \/ \E p \in Procs : DeleteRead(p)
    \/ \E p \in Procs : DeleteSave(p)
    \/ \E p \in Procs : DeleteUpdateUser(p)
    \/ \E p \in Procs : DeleteStats(p)

SpecInter == InitInter /\ [][NextInter]_vars

-----------------------------------------------------------------------------
(* Requests handled one at a time on a disk that may fail: a file that     *)
(* cannot be read or parsed when the request arrives, or a file that       *)
(* cannot be written.  The getters catch the error of a read and return an *)
(* empty value; the savers log the error of a write and rethrow it.        *)

\* requests handled under SpecFault
FaultCalls == 2

\* the files as the getters return them when file cannot be read: {} from
\* getUsers and getSessions, [] from getPromises
Unreadable(db, file) == [db EXCEPT ![file] = <<>>]

\* the files hold three promises, two users and a session
InitFault ==
    /\ Load(recordSession(Created(Len(RepBodies)), EarlierSessionId, 0))
    /\ now = 0
    /\ promiseSeq = Len(RepBodies)
    /\ requestSeq = 0
    /\ created = [k \in UserKeys |-> IF k = "0xabc" THEN 2 ELSE 1]
    /\ removed = [k \in UserKeys |-> 0]
    /\ last = [op |-> "initializeStorage", ok |-> TRUE, case |-> "loaded"]
    /\ procs = [p \in Procs |-> idle]
    /\ StorageReady /\ ServiceNew

\* POST /promises while promises.json or users.json cannot be read: the
\* method runs on the empty value and writes the file back
PostPromisesUnreadable(promiseData, file, t) ==
    /\ Store(createPromise(Unreadable(Db, file), promiseData, promiseSeq + 1, t))
    /\ promiseSeq' = promiseSeq + 1
    /\ created' = [created EXCEPT ![toLowerCase(promiseData.address)] = @ + 1]
    /\ now' = t
    /\ last' = [op |-> "createPromise", ok |-> TRUE, case |-> "unreadable"]
    /\ UNCHANGED <<requestSeq, removed, procs>>
    /\ UNCHANGED bootAndClient

\* POST /record-session while sessions.json cannot be read
PostRecordSessionUnreadable(sessionId, t) ==
    /\ Store(recordSession(Unreadable(Db, "sessions"), sessionId, t))
    /\ now' = t
    /\ last' = [op |-> "recordSession", ok |-> TRUE, case |-> "unreadable"]
    /\ UNCHANGED <<promiseSeq, requestSeq, created, removed, procs>>
    /\ UNCHANGED bootAndClient

\* POST /record-session while sessions.json cannot be written: saveSessions
\* throws, the catch of lines 61-63 logs, the route answers success
PostRecordSessionUnwritable(sessionId, t) ==
    /\ now' = t
    /\ last' = [op |-> "recordSession", ok |-> TRUE, case |-> "unwritable"]
    /\ UNCHANGED <<users, promises, stats, deleteRequests, sessions, promiseSeq,
                   requestSeq, created, removed, procs>>
    /\ UNCHANGED bootAndClient

\* PUT /promises/<id> with a new status while users.json cannot be written:
\* saveUsers throws inside updateUserReputation, whose catch of lines 320-322
\* logs; updatePromise goes on to updateGlobalStats and returns the promise
PutPromiseUnwritable(promiseId, updates, t) ==
    /\ ~updatePromiseThrows(Db, promiseId)
    /\ statusChanged(promises[PromiseIndex(promises, promiseId)], updates)
    /\ promises' = updatedPromises(promises, promiseId, updates, t)
    /\ stats' = updateGlobalStats(users, promises', sessions, t)
    /\ now' = t
    /\ last' = [op |-> "updatePromise", ok |-> TRUE, case |-> "unwritable"]
    /\ UNCHANGED <<users, deleteRequests, sessions, promiseSeq, requestSeq,
                   created, removed, procs>>
    /\ UNCHANGED bootAndClient

NextFault ==
    \/ \E sessionId \in SessionIds :
          now < FaultCalls /\ PostRecordSession(sessionId, now + 1)
    \/ \E promiseData \in PromiseDataSet :
          now < FaultCalls /\ PostPromises(promiseData, now + 1)
    \/ \E promiseId \in PromiseIds, updates \in StatusUpdates :
          now < FaultCalls /\ PutPromise(promiseId, updates, now + 1)
    \/ \E promiseData \in PromiseDataSet, file \in {"promises", "users"} :
          now < FaultCalls /\ PostPromisesUnreadable(promiseData, file, now + 1)
    \/ \E sessionId \in SessionIds :
          now < FaultCalls /\ PostRecordSessionUnreadable(sessionId, now + 1)
    \/ \E sessionId \in SessionIds :
          now < FaultCalls /\ PostRecordSessionUnwritable(sessionId, now + 1)
    \/ \E promiseId \in PromiseIds, updates \in StatusUpdates :
          now < FaultCalls /\ PutPromiseUnwritable(promiseId, updates, now + 1)

SpecFault == InitFault /\ [][NextFault]_vars

-----------------------------------------------------------------------------
(* The request handlers of the two HTTP servers.  A GET is answered inside *)
(* the try of the handler.  For a POST or PUT the handler registers the    *)
(* "data" and "end" callbacks and returns, leaving its try; the storage    *)
(* method runs later, in the async "end" callback, whose rejection nothing *)
(* catches.  The storage method is taken in one step.                      *)

\* requests received under SpecHttp
HttpCalls == 3

\* the requests a client sends
HttpRequests ==
    {[method |-> "PUT", path |-> "/promises/", promiseId |-> promiseId,
      updates |-> updates] : promiseId \in PromiseIds, updates \in StatusUpdates}
    \cup {[method |-> "POST", path |-> "/admin/approve-delete",
           requestId |-> requestId, adminAddress |-> adminAddress] :
             requestId \in RequestIds, adminAddress \in AdminAddresses}
    \cup {[method |-> "GET", path |-> "/users/", address |-> address] :
             address \in Requesters}

\* the files hold two promises of 0xabc and a pending request to delete the
\* first
InitHttp ==
    /\ Load(addDeleteRequest(Created(2), GeneratedPromiseId(1), "0xabc", 1, 0))
    /\ now = 0
    /\ promiseSeq = 2
    /\ requestSeq = 1
    /\ created = [k \in UserKeys |-> IF k = "0xabc" THEN 2 ELSE 0]
    /\ removed = [k \in UserKeys |-> 0]
    /\ last = [op |-> "initializeStorage", ok |-> TRUE, case |-> "loaded"]
    /\ procs = [p \in Procs |-> idle]
    /\ StorageReady /\ ServiceNew

\* the process has exited
Exited == \E p \in Procs : procs[p].pc = "exited"

\* http.createServer calls the handler with the request
Receive(p, request) ==
    /\ procs[p].pc = "idle"
    /\ request \in HttpRequests
    /\ procs' = [procs EXCEPT ![p] = [pc |-> "routing", request |-> request]]
    /\ now' = now + 1
    /\ UNCHANGED <<users, promises, stats, deleteRequests, sessions, promiseSeq,
                   requestSeq, created, removed, last>>
    /\ UNCHANGED bootAndClient

\* the handler from its first line to its return: a GET /users/<address> is
\* answered with 200 or 404, a POST or PUT waits for its body
Route(p) ==
    /\ procs[p].pc = "routing"
    /\ procs' = [procs EXCEPT ![p] =
          IF procs[p].request.method = "GET"
          THEN [pc |-> "answered", request |-> procs[p].request,
                status |-> IF HasUser(users, procs[p].request.address)
                           THEN 200 ELSE 404]
          ELSE [pc |-> "reading", request |-> procs[p].request]]
    /\ UNCHANGED <<users, promises, stats, deleteRequests, sessions, now,
                   promiseSeq, requestSeq, created, removed, last>>
    /\ UNCHANGED bootAndClient

\* the "end" callback of PUT /promises/<id>: updatePromise, then the 200; when
\* updatePromise throws the callback's promise is rejected and no line
\* writes a response
EndPutPromise(p) ==
    /\ procs[p].pc = "reading"
    /\ procs[p].request.method = "PUT"
    /\ Store(updatePromise(Db, procs[p].request.promiseId, procs[p].request.updates, now))
    /\ last' = [op |-> "updatePromise",
                ok |-> ~updatePromiseThrows(Db, procs[p].request.promiseId),
                case |-> IF updatePromiseThrows(Db, procs[p].request.promiseId)
                         THEN "notFound" ELSE "updated"]
    /\ procs' = [procs EXCEPT ![p] =
          IF updatePromiseThrows(Db, procs[p].request.promiseId)
          THEN [pc |-> "unanswered", request |-> procs[p].request]
          ELSE [pc |-> "answered", request |-> procs[p].request, status |-> 200]]
    /\ UNCHANGED <<now, promiseSeq, requestSeq, created, removed>>
    /\ UNCHANGED bootAndClient

\* the "end" callback of POST /admin/approve-delete
EndApproveDelete(p) ==
    /\ procs[p].pc = "reading"
    /\ procs[p].request.method = "POST"
    /\ Store(updateDeleteRequestStatus(Db, procs[p].request.requestId, "approved",
                                       procs[p].request.adminAddress, now))
    /\ removed' = [k \in UserKeys |->
                      removed[k] + Len(OwnedBy(promises, k)) - Len(OwnedBy(promises', k))]
    /\ last' = [op |-> "updateDeleteRequestStatus",
                ok |-> ~updateDeleteRequestStatusThrows(Db, procs[p].request.requestId,
                                                        "approved"),
                case |-> IF RequestIndex(deleteRequests, procs[p].request.requestId) = 0
                         THEN "notFound" ELSE "approved"]
    /\ procs' = [procs EXCEPT ![p] =
          IF updateDeleteRequestStatusThrows(Db, procs[p].request.requestId, "approved")
          THEN [pc |-> "unanswered", request |-> procs[p].request]
          ELSE [pc |-> "answered", request |-> procs[p].request, status |-> 200]]
    /\ UNCHANGED <<now, promiseSeq, requestSeq, created>>
    /\ UNCHANGED bootAndClient

\* the client has its response and the socket is free for another request
Close(p) ==
    /\ procs[p].pc = "answered"
    /\ procs' = [procs EXCEPT ![p] = idle]
    /\ UNCHANGED <<users, promises, stats, deleteRequests, sessions, now,
                   promiseSeq, requestSeq, created, removed, last>>
    /\ UNCHANGED bootAndClient

\* the unhandled rejection ends the process, as node does by default from
\* version 15 on; before, or with --unhandled-rejections=warn, it is logged
\* and the process goes on, the request left open
ExitOnRejection(p) ==
    /\ procs[p].pc = "unanswered"
    /\ procs' = [q \in Procs |->
                    IF procs[q].pc \in {"idle", "answered"} THEN [pc |-> "exited"]
                    ELSE [pc |-> "exited", request |-> procs[q].request]]
    /\ UNCHANGED <<users, promises, stats, deleteRequests, sessions, now,
                   promiseSeq, requestSeq, created, removed, last>>
    /\ UNCHANGED bootAndClient

NextHttp ==
    \/ \E p \in Procs, request \in HttpRequests :
          now < HttpCalls /\ ~Exited /\ Receive(p, request)
    \/ \E p \in Procs : Route(p)
    \/ \E p \in Procs : EndPutPromise(p)
    \/ \E p \in Procs : EndApproveDelete(p)
    \/ \E p \in Procs : Close(p)
    \/ \E p \in Procs : ExitOnRejection(p)

\* the event loop runs every callback that is ready, and a client that has
\* sent its request sends the body to its end
SpecHttp ==
    /\ InitHttp
    /\ [][NextHttp]_vars
    /\ \A p \in Procs :
          /\ WF_vars(Route(p))
          /\ WF_vars(EndPutPromise(p))
          /\ WF_vars(EndApproveDelete(p))
          /\ WF_vars(Close(p))

-----------------------------------------------------------------------------
(* The browser's RealtimeService: connect, disconnect, handleReconnect.    *)
(* connect awaits its fetch; a timer set by handleReconnect fires later.   *)
(* Each is a callback of the browser's event loop, run to its next await.  *)

\* calls of connect by the page, under SpecClient
CallerConnects == 2

maxReconnectAttempts == 5

\* line 100 with <= for <
withinMaxReconnectAttemptsInclusive(reconnectAttempts) ==
    reconnectAttempts <= maxReconnectAttempts

\* the test of line 100
withinMaxReconnectAttempts(reconnectAttempts) ==
    reconnectAttempts < maxReconnectAttempts

\* what the servers hold, which the service does not touch
storeAndHandlers ==
    <<users, promises, stats, deleteRequests, sessions, now, promiseSeq,
      requestSeq, created, removed, last, procs>>

InitClient ==
    /\ Load(emptyDb)
    /\ now = 0
    /\ promiseSeq = 0
    /\ requestSeq = 0
    /\ created = [k \in UserKeys |-> 0]
    /\ removed = [k \in UserKeys |-> 0]
    /\ last = [op |-> "initializeStorage", ok |-> TRUE, case |-> "empty"]
    /\ procs = [p \in Procs |-> idle]
    /\ StorageReady /\ ServiceNew

\* connect(sessionId) up to its fetch: lines 61-69
connect(sessionId) ==
    /\ service' = [service EXCEPT !.sessionId = sessionId]
    /\ pending' = [pending EXCEPT !.connects = @ + 1]

\* the page calls connect(sessionId)
CallConnect(sessionId) ==
    /\ connect(sessionId)
    /\ calls' = [connect |-> calls.connect + 1, byCaller |-> calls.byCaller + 1,
                 disconnected |-> FALSE]
    /\ UNCHANGED <<storeAndHandlers, present, init>>

\* the fetch of a connect answers ok and the try runs to its end: lines 71-79
ConnectSucceeds ==
    /\ pending.connects > 0
    /\ pending' = [pending EXCEPT !.connects = @ - 1]
    /\ UNCHANGED <<storeAndHandlers, present, init, service, calls>>

\* the fetch of a connect fails, or answers with an error status: the catch
\* of lines 80-88 calls handleReconnect, lines 99-110
ConnectFails ==
    /\ pending.connects > 0
    /\ IF withinMaxReconnectAttempts(service.reconnectAttempts)
       THEN /\ service' = [service EXCEPT !.reconnectAttempts = @ + 1]
            /\ pending' = [timers |-> pending.timers + 1,
                           connects |-> pending.connects - 1]
       ELSE /\ pending' = [pending EXCEPT !.connects = @ - 1]
            /\ UNCHANGED service
    /\ UNCHANGED <<storeAndHandlers, present, init, calls>>

\* a timer of handleReconnect fires: lines 104-108
TimerFires ==
    /\ pending.timers > 0
    /\ IF service.sessionId # null
       THEN /\ service' = [service EXCEPT !.sessionId = service.sessionId]
            /\ pending' = [timers |-> pending.timers - 1,
                           connects |-> pending.connects + 1]
            /\ calls' = [calls EXCEPT !.connect = @ + 1]
       ELSE /\ pending' = [pending EXCEPT !.timers = @ - 1]
            /\ UNCHANGED <<service, calls>>
    /\ UNCHANGED <<storeAndHandlers, present, init>>

\* the page calls disconnect(): lines 91-97; ws is never assigned
disconnect ==
    /\ service' = IF service.ws # null THEN [service EXCEPT !.ws = null] ELSE service
    /\ calls' = [calls EXCEPT !.disconnected = TRUE]
    /\ UNCHANGED <<storeAndHandlers, present, init, pending>>

NextClient ==
    \/ \E sessionId \in SessionIds :
          calls.byCaller < CallerConnects /\ CallConnect(sessionId)
    \/ ConnectSucceeds
    \/ ConnectFails
    \/ TimerFires
    \/ ~calls.disconnected /\ calls.byCaller > 0 /\ disconnect

\* a fetch settles and a timer that was set fires
SpecClient ==
    /\ InitClient
    /\ [][NextClient]_vars
    /\ WF_vars(ConnectSucceeds \/ ConnectFails)
    /\ WF_vars(TimerFires)

-----------------------------------------------------------------------------
(* The start of the server.  The constructor calls initializeStorage and   *)
(* does not await it; the server listens at once, so a request may be      *)
(* handled between two awaits of the initialization.  initializeFile       *)
(* awaits fs.access and, when the file is missing, awaits fs.writeFile of  *)
(* the default content.  A handler's writeFile creates a missing file.     *)
(* The storage method of a request is taken in one step.                   *)

\* requests handled under SpecBoot
BootCalls == 2

\* the files in the order of lines 20-31
InitOrder == <<"users", "promises", "stats", "deleteRequests", "sessions">>

\* where initializeStorage goes after the file numbered n
afterFile(n) ==
    IF n < Len(InitOrder) THEN [pc |-> "access", file |-> n + 1]
    ELSE [pc |-> "updateGlobalStats"]

\* the data directory exists and is empty; initializeStorage is at line 20
InitBoot ==
    /\ Load(emptyDb)
    /\ now = 0
    /\ promiseSeq = 0
    /\ requestSeq = 0
    /\ created = [k \in UserKeys |-> 0]
    /\ removed = [k \in UserKeys |-> 0]
    /\ last = [op |-> "constructor", ok |-> TRUE, case |-> "empty"]
    /\ procs = [p \in Procs |-> idle]
    /\ present = {}
    /\ init = [pc |-> "access", file |-> 1]
    /\ ServiceNew

\* initializeFile up to the end of its fs.access: lines 41-43
InitAccess ==
    /\ init.pc = "access"
    /\ init' = IF InitOrder[init.file] \in present THEN afterFile(init.file)
               ELSE [pc |-> "write", file |-> init.file]
    /\ UNCHANGED <<storeAndHandlers, present, service, pending, calls>>

\* the fs.writeFile of the default content: line 44
InitWrite ==
    /\ init.pc = "write"
    /\ Store([Db EXCEPT ![InitOrder[init.file]] = emptyDb[InitOrder[init.file]]])
    /\ present' = present \cup {InitOrder[init.file]}
    /\ init' = afterFile(init.file)
    /\ UNCHANGED <<now, promiseSeq, requestSeq, created, removed, last, procs,
                   service, pending, calls>>

\* the updateGlobalStats of line 34
InitStats ==
    /\ init.pc = "updateGlobalStats"
    /\ stats' = updateGlobalStats(users, promises, sessions, now)
    /\ present' = present \cup {"stats"}
    /\ init' = [pc |-> "done"]
    /\ UNCHANGED <<users, promises, deleteRequests, sessions, now, promiseSeq,
                   requestSeq, created, removed, last, procs, service, pending, calls>>

\* POST /promises while the server starts
PostPromisesStarting(promiseData, t) ==
    /\ Store(createPromise(Db, promiseData, promiseSeq + 1, t))
    /\ present' = present \cup {"users", "promises", "stats"}
    /\ promiseSeq' = promiseSeq + 1
    /\ created' = [created EXCEPT ![toLowerCase(promiseData.address)] = @ + 1]
    /\ now' = t
    /\ last' = [op |-> "createPromise", ok |-> TRUE, case |-> "created"]
    /\ UNCHANGED <<requestSeq, removed, procs, init, service, pending, calls>>

\* POST /record-session while the server starts
PostRecordSessionStarting(sessionId, t) ==
    /\ Store(recordSession(Db, sessionId, t))
    /\ present' = present \cup {"sessions"}
                     \cup (IF SessionIndex(sessions, sessionId) = 0 THEN {"stats"} ELSE {})
    /\ now' = t
    /\ last' = [op |-> "recordSession", ok |-> TRUE,
                case |-> IF SessionIndex(sessions, sessionId) = 0 THEN "new" ELSE "known"]
    /\ UNCHANGED <<promiseSeq, requestSeq, created, removed, procs, init,
                   service, pending, calls>>

NextBoot ==
    \/ InitAccess
    \/ InitWrite
    \/ InitStats
    \/ \E promiseData \in PromiseDataSet :
          now < BootCalls /\ PostPromisesStarting(promiseData, now + 1)
    \/ \E sessionId \in SessionIds :
          now < BootCalls /\ PostRecordSessionStarting(sessionId, now + 1)

SpecBoot == InitBoot /\ [][NextBoot]_vars

-----------------------------------------------------------------------------
(* Properties of the delete-request workflow *)

\* the positions of the pending requests for promiseId
PendingFor(requests, promiseId) ==
    {i \in 1..Len(requests) :
        requests[i].promiseId = promiseId /\ requests[i].status = "pending"}

\* C1: in every state of delete-requests.json, the handlers' reads and writes
\* interleaved or not, each promiseId has at most one request with status
\* "pending"
AtMostOnePendingPerPromise ==
    \A promiseId \in ConcPromiseIds :
        Cardinality(PendingFor(deleteRequests, promiseId)) <= 1

\* two addDeleteRequest calls for one promise ran interleaved: both found no
\* pending request, one has written its request and the other is about to
\* write its own over it
InterleavedAddsForOnePromise ==
    \E p \in Procs, q \in Procs :
        /\ procs[p].pc = "idle"
        /\ procs[q].pc = "addWrite"
        /\ Len(deleteRequests) = 1
        /\ deleteRequests[1].status = "pending"
        /\ Len(procs[q].requests) = 1
        /\ procs[q].requests[1].promiseId = deleteRequests[1].promiseId
        /\ procs[q].requests[1].id # deleteRequests[1].id

\* C2: addDeleteRequest for a promiseId that has a pending request returns
\* that request, a member of the collection with status "pending" and this
\* promiseId, and leaves the collection unchanged, with exactly one pending
\* request for the promiseId
AddDeleteRequestIdempotent ==
    [][\A promiseId \in PromiseIds, requesterAddress \in Requesters :
          (/\ PendingFor(deleteRequests, promiseId) # {}
           /\ PostDeleteRequests(promiseId, requesterAddress, now'))
          => LET returned == addDeleteRequestResult(Db, promiseId, requesterAddress,
                                                    requestSeq + 1, now')
             IN  /\ \E i \in PendingFor(deleteRequests, promiseId) :
                       deleteRequests[i] = returned
                 /\ deleteRequests' = deleteRequests
                 /\ Cardinality(PendingFor(deleteRequests', promiseId)) = 1]_vars

\* a repeated delete request was answered with the pending one
RepeatedRequestAnswered ==
    /\ last.op = "addDeleteRequest"
    /\ last.case = "existing"
    /\ \E i \in 1..Len(deleteRequests) : deleteRequests[i].status = "pending"

\* C3: for every user, totalPromises is the number of createPromise calls for
\* the user's address minus the number of the user's promises removed by
\* approved delete requests
TotalPromisesIsCreatedMinusRemoved ==
    \A i \in 1..Len(users) :
        users[i].totalPromises = created[users[i].key] - removed[users[i].key]

\* C4: approving a pending delete request whose promise exists removes the
\* promise, lowers the owner's totalPromises by exactly 1, not below 0, and
\* lowers GlobalStats.totalPromises by 1
ApprovalRemovesOnePromise ==
    [][\A requestId \in RequestIds, adminAddress \in AdminAddresses :
          LET i == RequestIndex(deleteRequests, requestId)
              promiseId == deleteRequests[i].promiseId
              target == promises[PromiseIndex(promises, promiseId)]
          IN  (/\ i # 0
               /\ deleteRequests[i].status = "pending"
               /\ PromiseIndex(promises, promiseId) # 0
               /\ PostResolveDelete(requestId, "approved", adminAddress, now'))
              => /\ PromiseIndex(promises', promiseId) = 0
                 /\ getUser(users', target.address).totalPromises
                       = getUser(users, target.address).totalPromises - 1
                 /\ getUser(users', target.address).totalPromises >= 0
                 /\ stats'.totalPromises = stats.totalPromises - 1]_vars

\* C5: rejecting a delete request changes only that request's status,
\* processedBy and processedAt: no promise, user or statistic changes, and no
\* other request
RejectionChangesOnlyTheRequest ==
    [][\A requestId \in RequestIds, adminAddress \in AdminAddresses :
          PostResolveDelete(requestId, "rejected", adminAddress, now')
          => /\ promises' = promises
             /\ users' = users
             /\ stats' = stats
             /\ Len(deleteRequests') = Len(deleteRequests)
             /\ \A j \in 1..Len(deleteRequests) :
                   IF deleteRequests[j].id = requestId
                   THEN /\ deleteRequests'[j].status = "rejected"
                        /\ deleteRequests'[j].processedBy = adminAddress
                        /\ deleteRequests'[j].processedAt = {now'}
                        /\ deleteRequests'[j].id = deleteRequests[j].id
                        /\ deleteRequests'[j].promiseId = deleteRequests[j].promiseId
                        /\ deleteRequests'[j].requesterAddress
                              = deleteRequests[j].requesterAddress
                        /\ deleteRequests'[j].requestedAt = deleteRequests[j].requestedAt
                   ELSE deleteRequests'[j] = deleteRequests[j]]_vars

\* a request was rejected while its promise and the promise's owner are stored
RejectedWithPromiseKept ==
    /\ last = [op |-> "updateDeleteRequestStatus", ok |-> TRUE, case |-> "rejected"]
    /\ \E j \in 1..Len(deleteRequests) :
          /\ deleteRequests[j].status = "rejected"
          /\ deleteRequests[j].processedBy \in AdminAddresses
          /\ deleteRequests[j].processedAt = {now}
          /\ PromiseIndex(promises, deleteRequests[j].promiseId) # 0
    /\ Len(users) > 0

\* C6: a delete request moves only from pending to approved or from pending
\* to rejected; an approved or rejected request never changes again
ResolvedRequestIsFinal ==
    [][\A j \in 1..Len(deleteRequests) :
          /\ j <= Len(deleteRequests')
          /\ deleteRequests'[j].status # deleteRequests[j].status
                => /\ deleteRequests[j].status = "pending"
                   /\ deleteRequests'[j].status \in {"approved", "rejected"}
          /\ deleteRequests[j].status \in {"approved", "rejected"}
                => deleteRequests'[j] = deleteRequests[j]]_vars

-----------------------------------------------------------------------------
(* Properties of the reputation engine *)

\* C7: every stored user has reputation >= 0 and level = floor(reputation/50)+1
ReputationAndLevelInvariant ==
    \A i \in 1..Len(users) :
        /\ users[i].reputation >= 0
        /\ users[i].level = (users[i].reputation \div 50) + 1

\* a failure was charged to a user whose reputation stays at the floor, and
\* completions have taken another user to level 2
FloorAndLevelTwo ==
    /\ last.op = "updatePromise"
    /\ last.case = "newStatus"
    /\ \E i, j \in 1..Len(users) :
          /\ users[i].failedPromises >= 1
          /\ users[i].reputation = 0
          /\ users[j].reputation >= 50
          /\ users[j].level = 2
          /\ users[j].lastActive = now

\* C8: a status update to a new status "completed" adds 10 to the owner's
\* reputation and 1 to completedPromises and to streak; to a new status
\* "failed" it makes reputation max(0, reputation - 5), adds 1 to
\* failedPromises and sets streak to 0; level becomes floor(reputation/50)+1.
\* A fresh user is at 10/1/level 1 after one completion and at 5/streak 0/
\* level 1 after a failure that follows it
ReputationEngineArithmetic ==
    [][\A promiseId \in RepPromiseIds, updates \in StatusUpdates :
          LET old == promises[PromiseIndex(promises, promiseId)]
              before == getUser(users, old.address)
              after == getUser(users', old.address)
          IN  (/\ PromiseIndex(promises, promiseId) # 0
               /\ updates.status # old.status
               /\ PutPromise(promiseId, updates, now'))
              => /\ updates.status = "completed"
                    => /\ after.reputation = before.reputation + 10
                       /\ after.completedPromises = before.completedPromises + 1
                       /\ after.failedPromises = before.failedPromises
                       /\ after.streak = before.streak + 1
                 /\ updates.status = "failed"
                    => /\ after.reputation = IF before.reputation > 5
                                             THEN before.reputation - 5 ELSE 0
                       /\ after.failedPromises = before.failedPromises + 1
                       /\ after.completedPromises = before.completedPromises
                       /\ after.streak = 0
                 /\ after.level = (after.reputation \div 50) + 1
                 /\ (/\ updates.status = "completed"
                     /\ before.reputation = 0 /\ before.streak = 0
                     /\ before.completedPromises = 0)
                    => (after.reputation = 10 /\ after.completedPromises = 1
                        /\ after.streak = 1 /\ after.level = 1)
                 /\ (/\ updates.status = "failed"
                     /\ before.reputation = 10 /\ before.streak = 1
                     /\ before.completedPromises = 1 /\ before.failedPromises = 0)
                    => (after.reputation = 5 /\ after.failedPromises = 1
                        /\ after.streak = 0 /\ after.level = 1)]_vars

\* the update handled after the start took a user from 40 to 50 and level 2
CompletionReachesLevelTwo ==
    /\ last.op = "updatePromise"
    /\ last.case = "newStatus"
    /\ now = 1
    /\ \E i \in 1..Len(users) :
          /\ users[i].reputation = 50
          /\ users[i].level = 2
          /\ users[i].lastActive = 1

\* the fields of a User record the engine is said to leave alone
KeepsIdentity(before, after) ==
    /\ after.key = before.key
    /\ after.address = before.address
    /\ after.joinedAt = before.joinedAt
    /\ after.totalPromises = before.totalPromises

\* the outcome counter a status update does not count in
KeepsOtherCounter(before, after, status) ==
    IF status = "completed" THEN after.failedPromises = before.failedPromises
    ELSE after.completedPromises = before.completedPromises

\* C9 as stated: one application of the engine leaves the owner's
\* totalPromises, address, joinedAt, lastActive and the other outcome counter
\* unchanged, and every other User record unchanged
EngineKeepsLastActive ==
    [][\A promiseId \in RepPromiseIds, updates \in StatusUpdates :
          LET old == promises[PromiseIndex(promises, promiseId)]
              before == getUser(users, old.address)
              after == getUser(users', old.address)
          IN  (/\ PromiseIndex(promises, promiseId) # 0
               /\ updates.status # old.status
               /\ PutPromise(promiseId, updates, now'))
              => /\ KeepsIdentity(before, after)
                 /\ KeepsOtherCounter(before, after, updates.status)
                 /\ after.lastActive = before.lastActive
                 /\ Len(users') = Len(users)
                 /\ \A i \in 1..Len(users) :
                       users[i].key # before.key => users'[i] = users[i]]_vars

\* C9: one application of the engine leaves the owner's totalPromises,
\* address, joinedAt and the other outcome counter unchanged, sets the owner's
\* lastActive to the time of the update, and leaves every other User record
\* unchanged
EngineTouchesOnlyItsFields ==
    [][\A promiseId \in RepPromiseIds, updates \in StatusUpdates :
          LET old == promises[PromiseIndex(promises, promiseId)]
              before == getUser(users, old.address)
              after == getUser(users', old.address)
          IN  (/\ PromiseIndex(promises, promiseId) # 0
               /\ updates.status # old.status
               /\ PutPromise(promiseId, updates, now'))
              => /\ KeepsIdentity(before, after)
                 /\ KeepsOtherCounter(before, after, updates.status)
                 /\ after.lastActive = now'
                 /\ Len(users') = Len(users)
                 /\ \A i \in 1..Len(users) :
                       users[i].key # before.key => users'[i] = users[i]]_vars

\* the engine ran in a later millisecond than the one the users joined in,
\* beside a user it did not touch
EngineRanLater ==
    /\ last.op = "updatePromise"
    /\ last.case = "newStatus"
    /\ \E i, j \in 1..Len(users) :
          /\ users[i].lastActive = 1
          /\ users[i].joinedAt = 0
          /\ users[i].completedPromises + users[i].failedPromises >= 1
          /\ users[j].lastActive = 0

\* C10: a status update whose status differs from the stored one applies the
\* engine exactly once, the owner's completedPromises + failedPromises
\* growing by exactly 1; one whose status equals the stored one leaves the
\* owner's reputation, counters, streak and level as they were
StatusUpdateAppliesEngineOnce ==
    [][\A promiseId \in PromiseIds, updates \in StatusUpdates :
          LET old == promises[PromiseIndex(promises, promiseId)]
              before == getUser(users, old.address)
              after == getUser(users', old.address)
          IN  (/\ PromiseIndex(promises, promiseId) # 0
               /\ PutPromise(promiseId, updates, now'))
              => IF updates.status # old.status
                 THEN after.completedPromises + after.failedPromises
                         = before.completedPromises + before.failedPromises + 1
                 ELSE /\ after.reputation = before.reputation
                      /\ after.completedPromises = before.completedPromises
                      /\ after.failedPromises = before.failedPromises
                      /\ after.streak = before.streak
                      /\ after.level = before.level]_vars

\* a status update repeated the stored status of a promise counted once
SameStatusRepeated ==
    /\ last.op = "updatePromise"
    /\ last.case = "sameStatus"
    /\ last.ok
    /\ \E i \in 1..Len(users) : users[i].totalPromises >= 1

-----------------------------------------------------------------------------
(* Properties of promise creation and update *)

\* C11: a status update of a promise that is completed or failed to the other
\* of the two is accepted, stores the new status and applies the engine for
\* the new outcome again, so one promise counts more than one outcome
TerminalPromiseRetransitions ==
    [][\A promiseId \in PromiseIds, updates \in StatusUpdates :
          LET old == promises[PromiseIndex(promises, promiseId)]
              before == getUser(users, old.address)
              after == getUser(users', old.address)
          IN  (/\ PromiseIndex(promises, promiseId) # 0
               /\ old.status \in {"completed", "failed"}
               /\ updates.status \in {"completed", "failed"} \ {old.status}
               /\ PutPromise(promiseId, updates, now'))
              => /\ last'.ok
                 /\ promises'[PromiseIndex(promises, promiseId)].status = updates.status
                 /\ IF updates.status = "completed"
                    THEN /\ after.completedPromises = before.completedPromises + 1
                         /\ after.reputation = before.reputation + 10
                    ELSE /\ after.failedPromises = before.failedPromises + 1
                         /\ after.reputation = Max(0, before.reputation - 5)]_vars

\* the one promise a user ever created has counted both as completed and as
\* failed
OnePromiseTwoOutcomes ==
    /\ last = [op |-> "updatePromise", ok |-> TRUE, case |-> "newStatus"]
    /\ \E i \in 1..Len(users) :
          /\ created[users[i].key] = 1
          /\ users[i].completedPromises = 1
          /\ users[i].failedPromises = 1
          /\ users[i].lastActive = now

\* C12: every promise that createPromise appends to the store has status
\* active, whatever the request body carries
CreatedPromiseIsActive ==
    [][\A promiseData \in PromiseDataSet :
          PostPromises(promiseData, now')
          => /\ Len(promises') = Len(promises) + 1
             /\ promises'[Len(promises')].status = "active"]_vars

\* C13: createPromise for an address without a User record creates the user
\* with reputation 0, no outcomes, streak 0, level 1 and totalPromises 1; for
\* an address with a User record it changes only that user's totalPromises,
\* by +1, and lastActive; no other user changes
CreatePromiseCountsForOwner ==
    [][\A promiseData \in PromiseDataSet :
          PostPromises(promiseData, now')
          => LET key == toLowerCase(promiseData.address)
                 known == {i \in 1..Len(users) : users[i].key = key}
             IN  IF known = {}
                 THEN /\ Len(users') = Len(users) + 1
                      /\ \A i \in 1..Len(users) : users'[i] = users[i]
                      /\ users'[Len(users')].key = key
                      /\ users'[Len(users')].reputation = 0
                      /\ users'[Len(users')].completedPromises = 0
                      /\ users'[Len(users')].failedPromises = 0
                      /\ users'[Len(users')].streak = 0
                      /\ users'[Len(users')].level = 1
                      /\ users'[Len(users')].totalPromises = 1
                 ELSE /\ Len(users') = Len(users)
                      /\ \A i \in 1..Len(users) :
                            users'[i] = IF i \in known
                                        THEN [users[i] EXCEPT
                                                 !.totalPromises = @ + 1,
                                                 !.lastActive = now']
                                        ELSE users[i]]_vars

\* a promise was created for a user who had one, beside a user created with
\* their first promise
SecondPromiseOfAUser ==
    /\ last.op = "createPromise"
    /\ \E i, j \in 1..Len(users) :
          /\ users[i].totalPromises = 2
          /\ users[i].joinedAt < users[i].lastActive
          /\ users[i].lastActive = now
          /\ users[j].totalPromises = 1
          /\ users[j].joinedAt = users[j].lastActive

\* C14: createPromise with an empty address or an empty message fails and
\* leaves users, promises and statistics unchanged
EmptyFieldsAreRejected ==
    [][\A promiseData \in PromiseDataSet :
          (/\ promiseData.address = "" \/ promiseData.message = ""
           /\ PostPromises(promiseData, now'))
          => /\ ~last'.ok
             /\ UNCHANGED <<users, promises, stats>>]_vars

\* C15: a status or progress update that names a promise id not in the store,
\* and a resolution that names a request id not in the store, fail and leave
\* promises, users, delete requests, statistics and sessions unchanged
UnknownIdsChangeNothing ==
    [][/\ \A promiseId \in PromiseIds, updates \in StatusUpdates \cup ProgressUpdates :
             (/\ \A i \in 1..Len(promises) : promises[i].id # promiseId
              /\ PutPromise(promiseId, updates, now'))
             => /\ ~last'.ok
                /\ UNCHANGED <<promises, users, deleteRequests, stats, sessions>>
       /\ \A requestId \in RequestIds, status \in {"approved", "rejected"},
             adminAddress \in AdminAddresses :
             (/\ \A i \in 1..Len(deleteRequests) : deleteRequests[i].id # requestId
              /\ PostResolveDelete(requestId, status, adminAddress, now'))
             => /\ ~last'.ok
                /\ UNCHANGED <<promises, users, deleteRequests, stats, sessions>>]_vars

\* an update named a promise id that is not stored, beside promises that are
UnknownPromiseRefused ==
    /\ last = [op |-> "updatePromise", ok |-> FALSE, case |-> "notFound"]
    /\ Len(promises) > 0
    /\ stats.lastUpdated < now

\* C16: a progress update changes only adminAdjustedProgress and updatedAt of
\* the promise it names: that promise's other fields, every other promise and
\* every user's reputation, level, streak and counters stay as they were
ProgressChangesOnlyProgress ==
    [][\A promiseId \in PromiseIds, updates \in ProgressUpdates :
          LET k == PromiseIndex(promises, promiseId)
          IN  (k # 0 /\ PutPromise(promiseId, updates, now'))
              => /\ Len(promises') = Len(promises)
                 /\ \A i \in 1..Len(promises) :
                       promises'[i] =
                          IF i = k
                          THEN [promises[i] EXCEPT
                                   !.adminAdjustedProgress = updates.adminAdjustedProgress,
                                   !.updatedAt = now']
                          ELSE promises[i]
                 /\ Len(users') = Len(users)
                 /\ \A i \in 1..Len(users) :
                       /\ users'[i].reputation = users[i].reputation
                       /\ users'[i].level = users[i].level
                       /\ users'[i].streak = users[i].streak
                       /\ users'[i].completedPromises = users[i].completedPromises
                       /\ users'[i].failedPromises = users[i].failedPromises
                       /\ users'[i].totalPromises = users[i].totalPromises]_vars

\* the admin set the progress of one of several promises, a completed one
ProgressSetOnCompletedPromise ==
    /\ last = [op |-> "updatePromise", ok |-> TRUE, case |-> "progress"]
    /\ Len(promises) >= 2
    /\ \E i \in 1..Len(promises) :
          /\ promises[i].adminAdjustedProgress = {50}
          /\ promises[i].status = "completed"
          /\ promises[i].updatedAt = now

\* C17: every stored promise's adminAdjustedProgress is unset or in 0..100,
\* a progress outside 0..100 being refused
ProgressWithinRange ==
    \A i \in 1..Len(promises) : promises[i].adminAdjustedProgress \subseteq 0..100

-----------------------------------------------------------------------------
(* Properties of the global statistics *)

\* the completed promises of the store
CompletedCount == Cardinality({i \in 1..Len(promises) : promises[i].status = "completed"})

\* the sum of the reputations of the stored users
ReputationSum == SumReputation(users)

\* C18: with requests handled one at a time, the stored statistics other than
\* lastUpdated are what a recompute over the stored users, promises and
\* sessions gives; in particular totalPromises is the number of promises
StatsAreFresh ==
    /\ stats = updateGlobalStats(users, promises, sessions, stats.lastUpdated)
    /\ stats.totalPromises = Len(promises)
    /\ stats.totalUsers = Len(sessions)

\* an approved deletion has completed while sessions, users and promises are
\* stored
StatsAfterApprovedDeletion ==
    /\ last = [op |-> "updateDeleteRequestStatus", ok |-> TRUE, case |-> "approved"]
    /\ stats.lastUpdated = now
    /\ stats.totalUsers >= 1
    /\ stats.totalPromises >= 1
    /\ Len(users) >= 1

\* C19 as stated: totalUsers is the number of recorded sessions, whatever the
\* number of users; averageReputation is 0 without sessions and otherwise is
\* exactly the sum of the reputations divided by the number of sessions
AverageReputationIsExact ==
    /\ stats.totalUsers = Len(sessions)
    /\ Len(sessions) = 0 => stats.averageReputation = [int |-> 0, dec |-> 0]
    /\ Len(sessions) > 0
          => /\ stats.averageReputation.int = ReputationSum \div Len(sessions)
             /\ stats.averageReputation.dec * Len(sessions)
                   = (ReputationSum % Len(sessions)) * 1000000000

\* C19: totalUsers is the number of recorded sessions, whatever the number of
\* users; averageReputation is 0 without sessions and otherwise is the sum of
\* the reputations divided by the number of sessions, rounded to 9 decimals
AverageReputationIsRounded ==
    /\ stats.totalUsers = Len(sessions)
    /\ Len(sessions) = 0 => stats.averageReputation = [int |-> 0, dec |-> 0]
    /\ Len(sessions) > 0
          => LET n == Len(sessions)
                 err == stats.averageReputation.dec * n
                           - (ReputationSum % n) * 1000000000
             IN  /\ stats.averageReputation.int = ReputationSum \div n
                 /\ stats.averageReputation.dec \in 0..999999999
                 /\ 0 - n < 2 * err
                 /\ 2 * err <= n

\* three sessions share the 40 points of two users: 13.333333333
AverageOverThreeSessions ==
    /\ last = [op |-> "recordSession", ok |-> TRUE, case |-> "new"]
    /\ Len(sessions) = 3
    /\ Len(users) = 2
    /\ ReputationSum = 40
    /\ stats.averageReputation = [int |-> 13, dec |-> 333333333]

\* C20 as stated: completionRate lies in [0, 100] and is 0 exactly when
\* totalPromises is 0
CompletionRateZeroOnlyWhenEmpty ==
    /\ stats.completionRate.int \in 0..100
    /\ stats.completionRate.dec \in 0..999999999
    /\ stats.completionRate.int = 100 => stats.completionRate.dec = 0
    /\ stats.completionRate = [int |-> 0, dec |-> 0] <=> stats.totalPromises = 0

\* C20: completionRate lies in [0, 100] and is 0 exactly when no stored
\* promise is completed, as when totalPromises is 0
CompletionRateZeroOnlyWithoutCompleted ==
    /\ stats.completionRate.int \in 0..100
    /\ stats.completionRate.dec \in 0..999999999
    /\ stats.completionRate.int = 100 => stats.completionRate.dec = 0
    /\ stats.completionRate = [int |-> 0, dec |-> 0] <=> CompletedCount = 0
    /\ stats.totalPromises = 0 => stats.completionRate = [int |-> 0, dec |-> 0]

\* a recompute found promises, none of them completed, one of them failed
RateZeroWithPromises ==
    /\ last = [op |-> "updatePromise", ok |-> TRUE, case |-> "newStatus"]
    /\ stats.lastUpdated = now
    /\ stats.totalPromises >= 1
    /\ \E i \in 1..Len(promises) : promises[i].status = "failed"
    /\ stats.completionRate = [int |-> 0, dec |-> 0]

-----------------------------------------------------------------------------
(* Properties of the top performer, the sessions, failures and ids *)

\* the first user, in the order of users.json, whose reputation no other
\* user's exceeds; 0 without users
BestUserIndex ==
    First({i \in 1..Len(users) :
              \A j \in 1..Len(users) : users[i].reputation >= users[j].reputation})

\* C21: topPerformer is the address of the user with the highest reputation,
\* the first in scan order on ties, and is none only when no user is stored
TopPerformerIsTheBestUser ==
    stats.topPerformer = IF users = <<>> THEN null ELSE users[BestUserIndex].address

FailureWritesNothing ==
    [][~last'.ok => UNCHANGED <<users, promises, stats, deleteRequests, sessions>>]_vars

\* C30: no two stored promises have the same id, so that the promise an
\* approved deletion targets is one record
PromiseIdsAreUnique ==
    \A i, j \in 1..Len(promises) : promises[i].id = promises[j].id => i = j

-----------------------------------------------------------------------------
(* Properties of handlers in flight at once *)

\* no handler is between its first read and its return
AllReturned == \A p \in Procs : procs[p] = idle

\* C23: when two createPromise calls for one owner have both returned,
\* however their reads and writes interleaved, both promises are stored, the
\* owner's totalPromises is higher by 2 and stats.totalPromises is the number
\* of stored promises
ConcurrentCreatesBothCount ==
    (AllReturned /\ now = 2 /\ promiseSeq = 4)
       => /\ Len(promises) = 4
          /\ getUser(users, "0xabc").totalPromises = 4
          /\ stats.totalPromises = Len(promises)

\* C24: the effects of one operation on promises, users and statistics are
\* atomic to a reader: while a createPromise or an approved deletion is alone
\* in progress the files are those before it or those after it, so that
\* stats.totalPromises and each owner's totalPromises count the stored
\* promises and no promise that has been removed
ReadersSeeWholeOperations ==
    (\E p \in Procs : procs[p] = idle)
       => /\ stats.totalPromises = Len(promises)
          /\ \A i \in 1..Len(users) :
                users[i].totalPromises
                   = Len(OwnedBy(promises, toLowerCase(users[i].address)))

\* C25: when two status updates of the two active promises of one owner have
\* both returned, however their steps interleaved, the owner's completed and
\* failed counters have grown by 2 in all and the reputation is what the two
\* outcomes give in one order or the other
ConcurrentOutcomesBothCount ==
    (/\ AllReturned /\ now = 2 /\ promiseSeq = 2
     /\ Len(promises) = 2
     /\ deleteRequests[1].status = "pending"
     /\ promises[1].status # "active"
     /\ promises[2].status # "active")
       => LET user == getUser(users, "0xabc")
              a == reputationChange(promises[1].status)
              b == reputationChange(promises[2].status)
          IN  /\ user.completedPromises + user.failedPromises = 2
              /\ user.reputation \in {Max(0, Max(0, a) + b), Max(0, Max(0, b) + a)}

\* C29: in any interleaving, a stored promise leaves promises.json only by
\* the write of a deletion that an approved delete request for its id set off
PromisesLeaveOnlyByApprovedDeletion ==
    [][\A i \in 1..Len(promises) :
          (\A j \in 1..Len(promises') : promises'[j].id # promises[i].id)
             => \E p \in Procs, r \in 1..Len(deleteRequests) :
                   /\ DeleteSave(p)
                   /\ procs[p].promiseId = promises[i].id
                   /\ deleteRequests[r].promiseId = promises[i].id
                   /\ deleteRequests[r].status = "approved"]_vars

-----------------------------------------------------------------------------
(* Properties of the handling of storage failures *)

RECURSIVE OutcomeSum(_)
\* the completed and failed promises counted in the stored users
OutcomeSum(us) ==
    IF us = <<>> THEN 0
    ELSE Head(us).completedPromises + Head(us).failedPromises + OutcomeSum(Tail(us))

\* C27: a request that meets a file it cannot read fails, the file is not
\* taken for an empty collection, and no stored promise, user or session is
\* overwritten or dropped by it
ReadFailureDropsNothing ==
    [][/\ last'.case = "unreadable" => ~last'.ok
       /\ \A i \in 1..Len(promises) :
             i <= Len(promises') /\ promises'[i].id = promises[i].id
       /\ \A i \in 1..Len(users) :
             /\ i <= Len(users')
             /\ toLowerCase(users'[i].address) = toLowerCase(users[i].address)
             /\ users'[i].joinedAt = users[i].joinedAt
       /\ \A i \in 1..Len(sessions) :
             i <= Len(sessions') /\ sessions'[i].id = sessions[i].id]_vars

\* C28: no failure is swallowed: a recordSession that answers success has
\* stored the session with its lastActive, and an updatePromise that answers
\* success after changing the status of a promise has stored the outcome in
\* its owner's counters
SuccessMeansPersisted ==
    [][(last'.ok /\ now' # now)
          => /\ last'.op = "recordSession"
                   => \E i \in 1..Len(sessions') : sessions'[i].lastActive = now'
             /\ (/\ last'.op = "updatePromise"
                 /\ \E i \in 1..Len(promises) : promises'[i].status # promises[i].status)
                   => OutcomeSum(users') = OutcomeSum(users) + 1]_vars

-----------------------------------------------------------------------------
(* Properties of the user key *)

\* C31: users are keyed by the lowercase address: no two records share a
\* key; a createPromise whose address differs from a stored user's only in
\* letter case adds 1 to that user's totalPromises and creates no user; a
\* status update and an approved deletion of a promise update the record
\* under the lowercase of the promise's address and no other
UsersKeyedByLowercaseAddress ==
    [][/\ \A i, j \in 1..Len(users') : users'[i].key = users'[j].key => i = j
       /\ \A i \in 1..Len(users') : users'[i].key = toLowerCase(users'[i].address)
       /\ \A promiseData \in PromiseDataSet :
             (/\ PostPromises(promiseData, now')
              /\ \E i \in 1..Len(users) :
                    users[i].key = toLowerCase(promiseData.address))
                => /\ Len(users') = Len(users)
                   /\ \A i \in 1..Len(users) :
                         users'[i].totalPromises
                            = users[i].totalPromises
                              + (IF users[i].key = toLowerCase(promiseData.address)
                                 THEN 1 ELSE 0)
       /\ \A promiseId \in PromiseIds, updates \in StatusUpdates :
             (PutPromise(promiseId, updates, now') /\ last'.case = "newStatus")
                => LET key == toLowerCase(promises[PromiseIndex(promises,
                                                                promiseId)].address)
                   IN  /\ Len(users') = Len(users)
                       /\ \A i \in 1..Len(users) :
                             IF users[i].key = key
                             THEN /\ users'[i].completedPromises + users'[i].failedPromises
                                        = users[i].completedPromises
                                          + users[i].failedPromises + 1
                                  /\ users'[i].lastActive = now'
                             ELSE users'[i] = users[i]
       /\ \A requestId \in RequestIds, adminAddress \in AdminAddresses :
             (/\ PostResolveDelete(requestId, "approved", adminAddress, now')
              /\ last'.ok)
                => LET promiseId == deleteRequests[RequestIndex(deleteRequests,
                                                                requestId)].promiseId
                       key == toLowerCase(promises[PromiseIndex(promises,
                                                                promiseId)].address)
                   IN  /\ Len(users') = Len(users)
                       /\ \A i \in 1..Len(users) :
                             IF users[i].key = key
                             THEN /\ users'[i].totalPromises
                                        = Max(0, users[i].totalPromises - 1)
                                  /\ users'[i].lastActive = now'
                             ELSE users'[i] = users[i]]_vars

\* a promise made as 0xABC has just been completed and the outcome is in the
\* record of the user who joined as 0xabc, who has both promises
MixedCasePromiseCompleted ==
    /\ last = [op |-> "updatePromise", ok |-> TRUE, case |-> "newStatus"]
    /\ \E i \in 1..Len(promises) :
          /\ promises[i].address = "0xABC"
          /\ promises[i].status = "completed"
          /\ promises[i].updatedAt = now
    /\ \E u \in 1..Len(users) :
          /\ users[u].address = "0xabc"
          /\ users[u].totalPromises >= 2
          /\ users[u].completedPromises >= 1
          /\ users[u].lastActive = now
    /\ \A u \in 1..Len(users) : users[u].address # "0xABC"

-----------------------------------------------------------------------------
(* Properties of two updates of one promise in flight at once *)

\* C32: when the two requests handled were status updates of the first
\* promise, active before them, and both have returned, each new status has
\* been applied to the owner once at most: two updates with the same new
\* status leave that outcome counter grown by 1 and the reputation by one
\* outcome's amount
SameOutcomeAppliedOnce ==
    (/\ AllReturned /\ now = 2 /\ promiseSeq = 2
     /\ Len(promises) = 2
     /\ deleteRequests[1].status = "pending"
     /\ promises[2].status = "active")
       => LET user == getUser(users, "0xabc")
          IN  /\ user.completedPromises <= 1
              /\ user.failedPromises <= 1
              /\ user.reputation <= reputationChange("completed")

-----------------------------------------------------------------------------
(* Properties relating the collections *)

\* C33: every pending delete request names a promise that is stored
PendingRequestsNameStoredPromises ==
    \A j \in 1..Len(deleteRequests) :
       deleteRequests[j].status = "pending"
          => PromiseIndex(promises, deleteRequests[j].promiseId) # 0

\* no user of us has more completed and failed promises than promises
OutcomesWithin(us) ==
    \A i \in 1..Len(us) :
       us[i].completedPromises + us[i].failedPromises <= us[i].totalPromises

\* C34: no user has more completed and failed promises than promises: as the
\* empty store has no user, no request takes users of whom this holds to users
\* of whom it does not
OutcomesWithinTotalPromises ==
    [][OutcomesWithin(users) => OutcomesWithin(users')]_vars

-----------------------------------------------------------------------------
(* Properties of the HTTP handlers *)

\* C35: every request the servers receive is answered in the end, once; a
\* POST or PUT whose storage method throws is answered with status 500
EveryRequestIsAnswered ==
    /\ \A p \in Procs : (procs[p].pc = "routing") ~> (procs[p].pc = "answered")
    /\ [][\A p \in Procs :
             (/\ procs[p].pc = "reading"
              /\ procs'[p].pc # "reading"
              /\ ~last'.ok)
                => /\ procs'[p].pc = "answered"
                   /\ procs'[p].status = 500]_vars

-----------------------------------------------------------------------------
(* Properties of the RealtimeService *)

\* C36: reconnectAttempts never exceeds maxReconnectAttempts, never decreases,
\* a connect that succeeds included, and at 5 a failed connect sets no timer;
\* connect runs at most once per call of the page and once per reconnect, 6
\* times for one call; in the end no timer and no connect is left
ReconnectsAreBounded ==
    /\ [](/\ service.reconnectAttempts <= maxReconnectAttempts
          /\ calls.connect <= calls.byCaller + maxReconnectAttempts
          /\ calls.byCaller = 1 => calls.connect <= 6)
    /\ [][/\ service'.reconnectAttempts >= service.reconnectAttempts
          /\ service.reconnectAttempts = maxReconnectAttempts
                => pending'.timers <= pending.timers]_vars
    /\ <>[](pending.timers = 0 /\ pending.connects = 0)

\* the sixth connect after one call of the page has failed and nothing is left
SixthConnectFailed ==
    /\ calls.byCaller = 1
    /\ calls.connect = 6
    /\ service.reconnectAttempts = maxReconnectAttempts
    /\ pending = [timers |-> 0, connects |-> 0]

\* C37: after disconnect() the service calls connect no more, unless the page
\* calls it: a timer set before the disconnect does not connect after it
NoConnectAfterDisconnect ==
    [][calls.disconnected
          => \/ calls'.connect = calls.connect
             \/ calls'.byCaller = calls.byCaller + 1]_vars

-----------------------------------------------------------------------------
(* Properties of the start of the server *)

\* C38: initializeStorage destroys nothing: no step of it replaces or empties
\* the users, promises, delete requests or sessions that a request has stored
InitializationKeepsStoredData ==
    [][init' # init
          => /\ users # <<>> => users' = users
             /\ promises # <<>> => promises' = promises
             /\ deleteRequests # <<>> => deleteRequests' = deleteRequests
             /\ sessions # <<>> => sessions' = sessions]_vars

====
